---------------------------- MODULE Spec2Model ----------------------------
(***************************************************************************)
(* A model of getwtxt-ng's registry: the SQLite-backed store of users and  *)
(* tweets (package registry), the twtxt fetcher, the paginated queries and *)
(* the HTTP handlers that compose them.                                    *)
(*                                                                         *)
(* Text (URLs, nicknames, tweet bodies, search terms) is kept in the state *)
(* as TLA+ strings; StrTable gives the characters of every string the      *)
(* model uses, and everything the code does with text (regular             *)
(* expressions, url.Parse, strings.Fields, FTS5 tokenisation) is computed  *)
(* on those characters.                                                    *)
(***************************************************************************)
EXTENDS Integers, Sequences, FiniteSets, TLC

VARIABLES
    db,      \* the committed database: users, tweets, the FTS5 index, sequences
    tx,      \* the working copy of the one open write transaction, or NoTx
    writer,  \* the process that holds SQLite's write lock, 0 when nobody does
    proc,    \* per process: the registry call it is inside of
    ret,     \* what the last call or query to return returned
    pg,      \* a client paging through a listing
    ft       \* one run of FetchTwtxt over a response body

vars == <<db, tx, writer, proc, ret, pg, ft>>

---------------------------------------------------------------------------
(* Bounds of the model *)

\* users.id is AUTOINCREMENT: at most this many accounts are ever created.
MaxUserId == 2
\* tweets.id is AUTOINCREMENT: at most this many rows are ever created.
MaxTweetId == 2

\* The processes calling into the registry concurrently: an HTTP handler and
\* the sync ticker.
Procs == {1, 2}

---------------------------------------------------------------------------
(* Text *)

StrTable ==
    ("" :> <<>>)
 @@ ("hello" :> <<"h", "e", "l", "l", "o">>)
 @@ ("hello #test" :> <<"h", "e", "l", "l", "o", " ", "#", "t", "e", "s", "t">>)
 @@ ("@<bar x.y> hello" :> <<"@", "<", "b", "a", "r", " ", "x", ".", "y", ">", " ", "h", "e", "l", "l", "o">>)
 @@ ("gopher://x" :> <<"g", "o", "p", "h", "e", "r", ":", "/", "/", "x">>)
 @@ ("http://localhost" :> <<"h", "t", "t", "p", ":", "/", "/", "l", "o", "c", "a", "l", "h", "o", "s", "t">>)
 @@ ("http://127.0.0.1" :> <<"h", "t", "t", "p", ":", "/", "/", "1", "2", "7", ".", "0", ".", "0", ".", "1">>)
 @@ ("https://example.com/twtxt.txt" :> <<"h", "t", "t", "p", "s", ":", "/", "/", "e", "x", "a", "m", "p", "l", "e", ".", "c", "o", "m", "/", "t", "w", "t", "x", "t", ".", "t", "x", "t">>)
 @@ ("https://ex.org/twtxt.txt" :> <<"h", "t", "t", "p", "s", ":", "/", "/", "e", "x", ".", "o", "r", "g", "/", "t", "w", "t", "x", "t", ".", "t", "x", "t">>)
 @@ ("foo" :> <<"f", "o", "o">>)
 @@ ("bar" :> <<"b", "a", "r">>)
 @@ ("test" :> <<"t", "e", "s", "t">>)
 @@ ("text/plain; charset=utf-8" :> <<"t", "e", "x", "t", "/", "p", "l", "a", "i", "n", ";", " ", "c", "h", "a", "r", "s", "e", "t", "=", "u", "t", "f", "-", "8">>)
 @@ ("text/html" :> <<"t", "e", "x", "t", "/", "h", "t", "m", "l">>)
 @@ ("2023-01-01T00:00:00Z\thello there" :> <<"2", "0", "2", "3", "-", "0", "1", "-", "0", "1", "T", "0", "0", ":", "0", "0", ":", "0", "0", "Z", "\t", "h", "e", "l", "l", "o", " ", "t", "h", "e", "r", "e">>)
 @@ ("2023-01-02T00:00:00.5Z hello" :> <<"2", "0", "2", "3", "-", "0", "1", "-", "0", "2", "T", "0", "0", ":", "0", "0", ":", "0", "0", ".", "5", "Z", " ", "h", "e", "l", "l", "o">>)
 @@ ("# a comment" :> <<"#", " ", "a", " ", "c", "o", "m", "m", "e", "n", "t">>)
 @@ ("1672531200\thello" :> <<"1", "6", "7", "2", "5", "3", "1", "2", "0", "0", "\t", "h", "e", "l", "l", "o">>)
 @@ ("2023-01-03T00:00:00Z" :> <<"2", "0", "2", "3", "-", "0", "1", "-", "0", "3", "T", "0", "0", ":", "0", "0", ":", "0", "0", "Z">>)
 @@ ("  2023-01-04T00:00:00Z  hello  " :> <<" ", " ", "2", "0", "2", "3", "-", "0", "1", "-", "0", "4", "T", "0", "0", ":", "0", "0", ":", "0", "0", "Z", " ", " ", "h", "e", "l", "l", "o", " ", " ">>)
 @@ ("http://localhost:8080/twtxt.txt" :> <<"h", "t", "t", "p", ":", "/", "/", "l", "o", "c", "a", "l", "h", "o", "s", "t", ":", "8", "0", "8", "0", "/", "t", "w", "t", "x", "t", ".", "t", "x", "t">>)
 @@ ("http://127.0.0.1:8080/twtxt.txt" :> <<"h", "t", "t", "p", ":", "/", "/", "1", "2", "7", ".", "0", ".", "0", ".", "1", ":", "8", "0", "8", "0", "/", "t", "w", "t", "x", "t", ".", "t", "x", "t">>)
 @@ (":x" :> <<":", "x">>)
 @@ ("http://localhost/twtxt.txt" :> <<"h", "t", "t", "p", ":", "/", "/", "l", "o", "c", "a", "l", "h", "o", "s", "t", "/", "t", "w", "t", "x", "t", ".", "t", "x", "t">>)
 @@ ("2023-01-01T00:00:00Z\thello #test @<bar https://ex2.com/twtxt.txt>" :> <<"2", "0", "2", "3", "-", "0", "1", "-", "0", "1", "T", "0", "0", ":", "0", "0", ":", "0", "0", "Z", "\t", "h", "e", "l", "l", "o", " ", "#", "t", "e", "s", "t", " ", "@", "<", "b", "a", "r", " ", "h", "t", "t", "p", "s", ":", "/", "/", "e", "x", "2", ".", "c", "o", "m", "/", "t", "w", "t", "x", "t", ".", "t", "x", "t", ">">>)
 @@ ("https://ex.com/twtxt.txt" :> <<"h", "t", "t", "p", "s", ":", "/", "/", "e", "x", ".", "c", "o", "m", "/", "t", "w", "t", "x", "t", ".", "t", "x", "t">>)
 @@ ("https://ex2.com/twtxt.txt" :> <<"h", "t", "t", "p", "s", ":", "/", "/", "e", "x", "2", ".", "c", "o", "m", "/", "t", "w", "t", "x", "t", ".", "t", "x", "t">>)
 @@ ("hello #test @<bar https://ex2.com/twtxt.txt>" :> <<"h", "e", "l", "l", "o", " ", "#", "t", "e", "s", "t", " ", "@", "<", "b", "a", "r", " ", "h", "t", "t", "p", "s", ":", "/", "/", "e", "x", "2", ".", "c", "o", "m", "/", "t", "w", "t", "x", "t", ".", "t", "x", "t", ">">>)
 @@ ("zzz" :> <<"z", "z", "z">>)
 @@ ("\"#test\"" :> <<"\"", "#", "t", "e", "s", "t", "\"">>)
 @@ ("\"@<\" * \"https://ex2.com/twtxt.txt>\"" :> <<"\"", "@", "<", "\"", " ", "*", " ", "\"", "h", "t", "t", "p", "s", ":", "/", "/", "e", "x", "2", ".", "c", "o", "m", "/", "t", "w", "t", "x", "t", ".", "t", "x", "t", ">", "\"">>)
 @@ ("\"#zzz\"" :> <<"\"", "#", "z", "z", "z", "\"">>)
 @@ ("!!" :> <<"!", "!">>)
 @@ ("foo bar" :> <<"f", "o", "o", " ", "b", "a", "r">>)
 @@ ("foo_1" :> <<"f", "o", "o", "_", "1">>)
 @@ ("a-b" :> <<"a", "-", "b">>)
 @@ ("https://a.org/twtxt.txt" :> <<"h", "t", "t", "p", "s", ":", "/", "/", "a", ".", "o", "r", "g", "/", "t", "w", "t", "x", "t", ".", "t", "x", "t">>)
 @@ ("https://b.org/twtxt.txt" :> <<"h", "t", "t", "p", "s", ":", "/", "/", "b", ".", "o", "r", "g", "/", "t", "w", "t", "x", "t", ".", "t", "x", "t">>)
 @@ ("example" :> <<"e", "x", "a", "m", "p", "l", "e">>)
 @@ ("http://www.example.com/twtxt.txt" :> <<"h", "t", "t", "p", ":", "/", "/", "w", "w", "w", ".", "e", "x", "a", "m", "p", "l", "e", ".", "c", "o", "m", "/", "t", "w", "t", "x", "t", ".", "t", "x", "t">>)
 @@ ("https://ple.com/twtxt.txt" :> <<"h", "t", "t", "p", "s", ":", "/", "/", "p", "l", "e", ".", "c", "o", "m", "/", "t", "w", "t", "x", "t", ".", "t", "x", "t">>)
 @@ ("https://foo" :> <<"h", "t", "t", "p", "s", ":", "/", "/", "f", "o", "o">>)
Chars(s) == StrTable[s]

Letters == {"a", "b", "c", "d", "e", "f", "g", "h", "i", "j", "k", "l", "m",
            "n", "o", "p", "q", "r", "s", "t", "u", "v", "w", "x", "y", "z"}
Digits == {"0", "1", "2", "3", "4", "5", "6", "7", "8", "9"}

\* \w of Go's regexp: [0-9A-Za-z_]
IsWord(c) == c \in Letters \cup Digits \cup {"_"}
\* \s of Go's regexp: [\t\n\f\r ]
IsSpace(c) == c \in {" ", "\t", "\n", "\f", "\r"}

HasPrefix(s, pre) ==
    /\ Len(pre) <= Len(s)
    /\ SubSeq(s, 1, Len(pre)) = pre

HasSuffix(s, suf) ==
    /\ Len(suf) <= Len(s)
    /\ SubSeq(s, Len(s) - Len(suf) + 1, Len(s)) = suf

\* regexp.MustCompile(`@<(\w+)\s(\S+)>`).MatchString(body)
RegexTweetContainsMentions(body) ==
    \E i \in 1..Len(body) :
        /\ i + 4 <= Len(body)
        /\ body[i] = "@" /\ body[i + 1] = "<"
        /\ \E j \in (i + 3)..Len(body) :
              /\ IsSpace(body[j])
              /\ \A m \in (i + 2)..(j - 1) : IsWord(body[m])
              /\ \E k \in (j + 2)..Len(body) :
                    /\ body[k] = ">"
                    /\ \A m \in (j + 1)..(k - 1) : ~IsSpace(body[m])

\* regexp.MustCompile(`#(\w+)`).MatchString(body)
RegexTweetContainsTags(body) ==
    \E i \in 1..Len(body) :
        /\ i < Len(body)
        /\ body[i] = "#"
        /\ IsWord(body[i + 1])

---------------------------------------------------------------------------
(* The database of InitSQLite *)

NoTx == [none |-> TRUE]

EmptyDB == [users |-> {}, tweets |-> {}, fts |-> {}, userSeq |-> 0, tweetSeq |-> 0]

StatusVisible == 0
StatusHidden == 1

\* CREATE VIEW tweets_users: tweets JOIN users ON users.id = tweets.user_id.
\* It is the content table of tweets_search.
tweets_users(s) == {t \in s.tweets : \E u \in s.users : u.id = t.user_id}

\* CREATE TRIGGER tweetsInsert AFTER INSERT ON tweets: the new row's columns
\* are written to the FTS5 index under its rowid.
tweetsInsert(s, new) == [s EXCEPT !.fts = @ \cup {new}]

\* DELETE FROM tweets_search WHERE ROWID = r, on an external-content FTS5
\* table: the rows of tweets_search are those of its content table, and the
\* index entry of a row is removed by reading that row's columns from the
\* content table.  A rowid the content table does not hold selects no row.
FtsDeleteRowid(s, r) ==
    IF \E t \in tweets_users(s) : t.id = r
    THEN [s EXCEPT !.fts = {d \in @ : d.id # r}]
    ELSE s

\* CREATE TRIGGER tweetsDelete AFTER DELETE ON tweets: runs once the row is
\* gone from tweets.
tweetsDelete(s, old) == FtsDeleteRowid(s, old.id)

\* The UNIQUE (user_id, dt, body) constraint of tweets.
SameKey(a, b) == a.user_id = b.user_id /\ a.dt = b.dt /\ a.body = b.body

\* INSERT without OR IGNORE on a table without ON CONFLICT IGNORE: the
\* duplicate row is a constraint error.
ExecInsertTweetAbort(s, userID, dt, body, hasMentions, hasTags) ==
    LET new == [id |-> s.tweetSeq + 1, user_id |-> userID, dt |-> dt, body |-> body,
                contains_mentions |-> hasMentions, contains_tags |-> hasTags,
                hidden |-> StatusVisible]
    IN IF \E t \in s.tweets : SameKey(t, new)
       THEN [err |-> "constraint", s |-> s, n |-> 0]
       ELSE [err |-> "none", n |-> 0,
             s |-> tweetsInsert([s EXCEPT !.tweets = @ \cup {new}, !.tweetSeq = @ + 1], new)]

\* A tweets table without the UNIQUE constraint: every insert makes a row.
ExecInsertTweetNoUnique(s, userID, dt, body, hasMentions, hasTags) ==
    LET new == [id |-> s.tweetSeq + 1, user_id |-> userID, dt |-> dt, body |-> body,
                contains_mentions |-> hasMentions, contains_tags |-> hasTags,
                hidden |-> StatusVisible]
    IN [err |-> "none", n |-> 0,
        s |-> tweetsInsert([s EXCEPT !.tweets = @ \cup {new}, !.tweetSeq = @ + 1], new)]

\* INSERT OR REPLACE in place of INSERT OR IGNORE: the row that breaks the
\* UNIQUE constraint is removed and the new row, with hidden at its DEFAULT,
\* takes its place.
ExecInsertTweetReplace(s, userID, dt, body, hasMentions, hasTags) ==
    LET new == [id |-> s.tweetSeq + 1, user_id |-> userID, dt |-> dt, body |-> body,
                contains_mentions |-> hasMentions, contains_tags |-> hasTags,
                hidden |-> StatusVisible]
        kept == {t \in s.tweets : ~SameKey(t, new)}
    IN [err |-> "none", n |-> 0,
        s |-> tweetsInsert([s EXCEPT !.tweets = kept \cup {new}, !.tweetSeq = @ + 1], new)]

\* One execution of
\*   INSERT OR IGNORE INTO tweets (user_id, dt, body, contains_mentions,
\*   contains_tags) VALUES(?,?,?,?,?)
\* hidden takes its DEFAULT 0; a row that would break the UNIQUE constraint is
\* skipped without an error.  Rowids skipped by ignored inserts are not
\* modelled: nothing reads the gaps.
ExecInsertTweet(s, userID, dt, body, hasMentions, hasTags) ==
    LET new == [id |-> s.tweetSeq + 1, user_id |-> userID, dt |-> dt, body |-> body,
                contains_mentions |-> hasMentions, contains_tags |-> hasTags,
                hidden |-> StatusVisible]
    IN IF \E t \in s.tweets : SameKey(t, new)
       THEN [err |-> "none", s |-> s, n |-> 0]
       ELSE [err |-> "none", n |-> 0,
             s |-> tweetsInsert([s EXCEPT !.tweets = @ \cup {new}, !.tweetSeq = @ + 1], new)]


---------------------------------------------------------------------------
(* net/url.Parse, as far as the registry relies on it *)

Min(S) == CHOOSE x \in S : \A y \in S : x <= y
Max(S) == CHOOSE x \in S : \A y \in S : x >= y

\* Index of the first c in s, 0 if there is none (strings.IndexByte + 1).
IndexOf(s, c) ==
    LET at == {i \in 1..Len(s) : s[i] = c}
    IN IF at = {} THEN 0 ELSE Min(at)

LastIndexOf(s, c) ==
    LET at == {i \in 1..Len(s) : s[i] = c}
    IN IF at = {} THEN 0 ELSE Max(at)

\* s[:i-1] and s[i+1:] around position i (i > 0)
Before(s, i) == SubSeq(s, 1, i - 1)
After(s, i) == SubSeq(s, i + 1, Len(s))

\* url.getScheme: letters continue a scheme, digits and "+-." do after the
\* first character, ":" ends it, anything else means there is no scheme.
getScheme(raw) ==
    LET stop == {i \in 1..Len(raw) :
                    ~(\/ raw[i] \in Letters
                      \/ (i > 1 /\ raw[i] \in Digits \cup {"+", "-", "."}))}
        i == IF stop = {} THEN 0 ELSE Min(stop)
    IN IF i = 0 \/ raw[i] # ":"
       THEN [err |-> FALSE, scheme |-> <<>>, rest |-> raw]
       ELSE IF i = 1
            THEN [err |-> TRUE, scheme |-> <<>>, rest |-> raw]
            ELSE [err |-> FALSE, scheme |-> Before(raw, i), rest |-> After(raw, i)]

\* url.parseHost: what follows the last ":" of a host must be a decimal port.
validOptionalPort(host) ==
    LET c == LastIndexOf(host, ":")
    IN c = 0 \/ \A m \in (c + 1)..Len(host) : host[m] \in Digits

\* The *URL and error url.Parse returns for a text it does not accept.
BadURL == [err |-> TRUE, Scheme |-> <<>>, Host |-> <<>>, Path |-> <<>>]

\* url.parseAuthority: the host is what follows the last "@" of the
\* authority, and its port must be valid.
parseAuthority(scheme, authority, path) ==
    LET at == LastIndexOf(authority, "@")
        host == IF at = 0 THEN authority ELSE After(authority, at)
    IN IF ~validOptionalPort(host) THEN BadURL
       ELSE [err |-> FALSE, Scheme |-> scheme, Host |-> host, Path |-> path]

\* The text after "//": the authority up to the first "/", then the path.
parseSlashSlash(scheme, r2) ==
    LET slash == IndexOf(r2, "/")
    IN parseAuthority(scheme,
                      IF slash = 0 THEN r2 ELSE Before(r2, slash),
                      IF slash = 0 THEN <<>> ELSE SubSeq(r2, slash, Len(r2)))

\* The first path segment of rest has a colon.
FirstSegmentHasColon(rest) ==
    LET slash == IndexOf(rest, "/")
    IN IndexOf(IF slash = 0 THEN rest ELSE Before(rest, slash), ":") # 0

\* url.parse once the scheme and the query are cut off.
parseRest(scheme, rest) ==
    IF ~HasPrefix(rest, <<"/">>) /\ scheme # <<>>
    THEN \* a rootless path: everything after the scheme is opaque
         [err |-> FALSE, Scheme |-> scheme, Host |-> <<>>, Path |-> <<>>]
    ELSE IF ~HasPrefix(rest, <<"/">>) /\ FirstSegmentHasColon(rest)
    THEN BadURL  \* first path segment in URL cannot contain colon
    ELSE IF /\ (scheme # <<>> \/ ~HasPrefix(rest, <<"/", "/", "/">>))
            /\ HasPrefix(rest, <<"/", "/">>)
    THEN parseSlashSlash(scheme, SubSeq(rest, 3, Len(rest)))
    ELSE [err |-> FALSE, Scheme |-> scheme, Host |-> <<>>, Path |-> rest]

\* url.parse on what getScheme returned: the query is cut off at the "?".
parseScheme(sch) ==
    IF sch.err THEN BadURL
    ELSE LET qm == IndexOf(sch.rest, "?")
         IN parseRest(sch.scheme, IF qm = 0 THEN sch.rest ELSE Before(sch.rest, qm))

\* url.Parse(rawURL): fragment, scheme, query, authority and path.  Percent
\* escapes, IPv6 literals and the host's character check are left out: no
\* text of the model has them.
ParseURL(rawURL) ==
    LET hash == IndexOf(rawURL, "#")
    IN parseScheme(getScheme(IF hash = 0 THEN rawURL ELSE Before(rawURL, hash)))

---------------------------------------------------------------------------
(* registry: users *)

\* RegexIsAlpha = regexp.MustCompile(`\w+`), used with MatchString: it is not
\* anchored, so it asks for one word character somewhere in the nickname.
RegexIsAlpha(nick) == \E i \in 1..Len(nick) : IsWord(nick[i])

\* RegexURLIsTwtxtFile = regexp.MustCompile(`/twtxt\.txt$|/twtxt$|\.txt$`)
RegexURLIsTwtxtFile(url) ==
    \/ HasSuffix(url, <<"/", "t", "w", "t", "x", "t", ".", "t", "x", "t">>)
    \/ HasSuffix(url, <<"/", "t", "w", "t", "x", "t">>)
    \/ HasSuffix(url, <<".", "t", "x", "t">>)

\* The argument checks of InsertUser, before it opens a transaction.
\* u is NilUser or [URL, Nick, HasHash].
NilUser == [nil |-> TRUE]

\* InsertUser without the test of the URL's last path element.
InsertUserCheckNoFile(u) ==
    IF \/ u = NilUser
       \/ u.URL = "" \/ u.Nick = "" \/ ~u.HasHash
       \/ ~RegexIsAlpha(Chars(u.Nick))
    THEN "ErrIncompleteUserInfo"
    ELSE LET parsedURL == ParseURL(Chars(u.URL))
         IN IF parsedURL.err \/ parsedURL.Scheme = <<>>
            THEN "ErrIncompleteUserInfo"
            ELSE "none"

InsertUserCheck(u) ==
    IF \/ u = NilUser
       \/ u.URL = "" \/ u.Nick = "" \/ ~u.HasHash
       \/ ~RegexIsAlpha(Chars(u.Nick))
    THEN "ErrIncompleteUserInfo"
    ELSE LET parsedURL == ParseURL(Chars(u.URL))
         IN IF parsedURL.err \/ parsedURL.Scheme = <<>>
            THEN "ErrIncompleteUserInfo"
            ELSE IF ~RegexURLIsTwtxtFile(Chars(u.URL))
                 THEN "ErrUserURLIsNotTwtxtFile"
                 ELSE "none"

\* INSERT INTO users (url, nick, passcode_hash, dt_added, last_sync)
\*   VALUES(?,?,?,?, 0)
\* url is UNIQUE: a second row with the same url is a constraint error.
\* dt_added is time.Now() for a zero DateTimeAdded: the clock is read as the
\* number of accounts created so far, so later accounts are newer.
ExecInsertUser(s, u) ==
    LET new == [id |-> s.userSeq + 1, url |-> u.URL, nick |-> u.Nick,
                dt_added |-> s.userSeq + 1, last_sync |-> 0]
    IN IF \E x \in s.users : x.url = u.URL
       THEN [err |-> "constraint", s |-> s, n |-> 0]
       ELSE [err |-> "none", n |-> new.id,
             s |-> [s EXCEPT !.users = @ \cup {new}, !.userSeq = @ + 1]]

\* The loop of InsertUsers over its argument.  GeneratePasscode gives every
\* candidate a passcode hash.  A candidate without URL or nickname, or whose
\* nickname RegexIsAlpha does not match, ends the call with
\* ErrIncompleteUserInfo; one whose URL does not parse, has no scheme or is
\* not a twtxt file is passed over; an INSERT that fails ends the call.
RECURSIVE InsertUsersLoop(_, _, _, _, _)
InsertUsersLoop(s, users, i, failAt, usersAdded) ==
    IF i > Len(users) THEN [err |-> "none", s |-> s, n |-> Len(usersAdded), added |-> usersAdded]
    ELSE LET u == users[i]
             parsedURL == ParseURL(Chars(u.URL))
             r == ExecInsertUser(s, u)
         IN IF u.URL = "" \/ u.Nick = "" \/ ~RegexIsAlpha(Chars(u.Nick))
            THEN [err |-> "ErrIncompleteUserInfo", s |-> s, n |-> 0, added |-> <<>>]
            ELSE IF parsedURL.err \/ parsedURL.Scheme = <<>>
            THEN InsertUsersLoop(s, users, i + 1, failAt, usersAdded)
            ELSE IF ~RegexURLIsTwtxtFile(Chars(u.URL))
            THEN InsertUsersLoop(s, users, i + 1, failAt, usersAdded)
            ELSE IF i = failAt
            THEN [err |-> "exec", s |-> s, n |-> 0, added |-> <<>>]
            ELSE IF r.err # "none"
            THEN [err |-> r.err, s |-> s, n |-> 0, added |-> <<>>]
            ELSE InsertUsersLoop(r.s, users, i + 1, failAt,
                                 Append(usersAdded, [ID |-> r.n, URL |-> u.URL, Nick |-> u.Nick]))

---------------------------------------------------------------------------
(* registry: the statements of the write operations *)

\* The loop of InsertTweets over its argument: the flags are computed from
\* the body, then the row is inserted.  failAt is the statement at which
\* ExecContext fails (the context is canceled, the disk is full), 0 if none
\* does.
\* The flags taken from what the caller put into Mentions and Tags.
RECURSIVE InsertTweetsLoopFromInput(_, _, _, _)
InsertTweetsLoopFromInput(s, tweets, i, failAt) ==
    IF i > Len(tweets) THEN [err |-> "none", s |-> s, n |-> 0]
    ELSE IF i = failAt THEN [err |-> "exec", s |-> s, n |-> 0]
    ELSE LET t == tweets[i]
             hasMentions == IF Len(t.Mentions) > 0 THEN 1 ELSE 0
             hasTags == IF Len(t.Tags) > 0 THEN 1 ELSE 0
             r == ExecInsertTweet(s, t.UserID, t.DateTime, t.Body, hasMentions, hasTags)
         IN IF r.err # "none" THEN r
            ELSE InsertTweetsLoopFromInput(r.s, tweets, i + 1, failAt)

RECURSIVE InsertTweetsLoop(_, _, _, _)
InsertTweetsLoop(s, tweets, i, failAt) ==
    IF i > Len(tweets) THEN [err |-> "none", s |-> s, n |-> 0]
    ELSE IF i = failAt THEN [err |-> "exec", s |-> s, n |-> 0]
    ELSE LET t == tweets[i]
             hasMentions == IF RegexTweetContainsMentions(Chars(t.Body)) THEN 1 ELSE 0
             hasTags == IF RegexTweetContainsTags(Chars(t.Body)) THEN 1 ELSE 0
             r == ExecInsertTweet(s, t.UserID, t.DateTime, t.Body, hasMentions, hasTags)
         IN IF r.err # "none" THEN r
            ELSE InsertTweetsLoop(r.s, tweets, i + 1, failAt)

\* DELETE FROM tweets WHERE <rows>: each row is removed and tweetsDelete runs
\* for it.
RECURSIVE DeleteTweetRows(_, _)
DeleteTweetRows(s, rows) ==
    IF rows = {} THEN s
    ELSE LET old == CHOOSE t \in rows : TRUE
         IN DeleteTweetRows(tweetsDelete([s EXCEPT !.tweets = @ \ {old}], old), rows \ {old})

\* DeleteUser without its first statement: the account's tweets stay.
DeleteUserStmtsKeepTweets(s, id, failAt) ==
    LET rows == {t \in s.tweets : t.user_id = id}
        s2 == [s EXCEPT !.users = {u \in @ : u.id # id}]
    IN IF failAt \in {1, 2} THEN [err |-> "exec", s |-> s, n |-> 0]
       ELSE [err |-> "none", s |-> s2, n |-> Cardinality(rows)]

\* The two statements of DeleteUser:
\*   DELETE FROM tweets WHERE user_id = ?;  DELETE FROM users WHERE id = ?
\* n is RowsAffected() of the first.
DeleteUserStmts(s, id, failAt) ==
    LET rows == {t \in s.tweets : t.user_id = id}
        s1 == DeleteTweetRows(s, rows)
        s2 == [s1 EXCEPT !.users = {u \in @ : u.id # id}]
    IN IF failAt = 1 THEN [err |-> "exec", s |-> s, n |-> 0]
       ELSE IF failAt = 2 THEN [err |-> "exec", s |-> s1, n |-> 0]
       ELSE [err |-> "none", s |-> s2, n |-> Cardinality(rows)]

\* The loop of DeleteUsers over its URLs, two statements per URL:
\*   DELETE FROM tweets WHERE user_id IN (SELECT id FROM users WHERE url = ?)
\*   DELETE FROM users WHERE url = ?
RECURSIVE DeleteUsersLoop(_, _, _, _, _)
DeleteUsersLoop(s, urls, i, failAt, tweetCount) ==
    IF i > Len(urls) THEN [err |-> "none", s |-> s, n |-> tweetCount]
    ELSE IF i = failAt THEN [err |-> "exec", s |-> s, n |-> 0]
    ELSE LET ids == {u.id : u \in {x \in s.users : x.url = urls[i]}}
             rows == {t \in s.tweets : t.user_id \in ids}
             s1 == DeleteTweetRows(s, rows)
             s2 == [s1 EXCEPT !.users = {u \in @ : u.url # urls[i]}]
         IN DeleteUsersLoop(s2, urls, i + 1, failAt, tweetCount + Cardinality(rows))

\* UPDATE tweets SET hidden = ? WHERE user_id = ? AND dt = ?
\* No trigger fires on UPDATE: the FTS5 index keeps what was written at insert.
ExecToggle(s, userID, dt, status, fail) ==
    IF fail THEN [err |-> "exec", s |-> s, n |-> 0]
    ELSE [err |-> "none", n |-> 0,
          s |-> [s EXCEPT !.tweets = {IF t.user_id = userID /\ t.dt = dt
                                      THEN [t EXCEPT !.hidden = status] ELSE t : t \in @}]]

---------------------------------------------------------------------------
(* registry: the paginated queries *)

\* Smallest and largest page size of the DB (entries_per_page_min/_max of the
\* configuration, scaled down).
EntriesPerPageMin == 2
EntriesPerPageMax == 3

\* page--, the clamping of perPage, and idFloor/idCeil, as every paginated
\* operation computes them.
PageWindow(page, perPage) ==
    LET pp1 == IF perPage < EntriesPerPageMin THEN EntriesPerPageMin ELSE perPage
        pp == IF pp1 > EntriesPerPageMax THEN EntriesPerPageMax ELSE pp1
        pg0 == IF page - 1 < 0 THEN 0 ELSE page - 1
    IN [idFloor |-> pg0 * pp, idCeil |-> pg0 * pp + pp]

\* ROW_NUMBER() OVER (ORDER BY <key> DESC) over a set of rows.  SQL leaves
\* the order of rows with equal keys open; SQLite's sorter hands them back in
\* the order the scan produced them, which is by rowid, ascending or (with
\* reverse_unordered_selects) descending: tie is which of the two.
RowBefore(a, b, key, tie) ==
    \/ a[key] > b[key]
    \/ a[key] = b[key] /\ (IF tie = "asc" THEN a.id < b.id ELSE a.id > b.id)

RECURSIVE OrderByDesc(_, _, _)
OrderByDesc(rows, key, tie) ==
    IF rows = {} THEN <<>>
    ELSE LET first == CHOOSE a \in rows : \A b \in rows \ {a} : RowBefore(a, b, key, tie)
         IN <<first>> \o OrderByDesc(rows \ {first}, key, tie)

TieOrders == {"asc", "desc"}

\* WHERE set_id > idFloor AND set_id <= idCeil
SetIdWindow(ordered, w) ==
    LET lo == w.idFloor + 1
        hi == IF w.idCeil < Len(ordered) THEN w.idCeil ELSE Len(ordered)
    IN IF lo > hi THEN <<>> ELSE SubSeq(ordered, lo, hi)

\* The columns of users a tweet row is joined with (LEFT JOIN: NULL when the
\* account is missing).
NullText == "NULL"
NickOf(s, t) ==
    IF \E u \in s.users : u.id = t.user_id
    THEN (CHOOSE u \in s.users : u.id = t.user_id).nick
    ELSE NullText

\* rows.Scan of one result row into a Tweet: a NULL nick cannot be scanned into
\* a string, the row is logged and skipped.
RECURSIVE ScanTweets(_, _)
ScanTweets(s, rows) ==
    IF rows = <<>> THEN <<>>
    ELSE LET t == Head(rows)
         IN (IF NickOf(s, t) = NullText THEN <<>> ELSE <<t>>) \o ScanTweets(s, Tail(rows))

\* GetTweets: tweets LEFT JOIN users WHERE tweets.hidden = ?
GetTweets(s, page, perPage, visibilityStatus, tie) ==
    LET sel == {t \in s.tweets : t.hidden = visibilityStatus}
    IN ScanTweets(s, SetIdWindow(OrderByDesc(sel, "dt", tie), PageWindow(page, perPage)))

\* GetTags: FROM tweets_users WHERE hidden = ? AND contains_tags = 1
GetTags(s, page, perPage, visibilityStatus, tie) ==
    LET sel == {t \in tweets_users(s) : t.hidden = visibilityStatus /\ t.contains_tags = 1}
    IN SetIdWindow(OrderByDesc(sel, "dt", tie), PageWindow(page, perPage))

\* GetMentions: FROM tweets_users WHERE hidden = ? AND contains_mentions = 1
GetMentions(s, page, perPage, visibilityStatus, tie) ==
    LET sel == {t \in tweets_users(s) : t.hidden = visibilityStatus /\ t.contains_mentions = 1}
    IN SetIdWindow(OrderByDesc(sel, "dt", tie), PageWindow(page, perPage))

\* GetUsers: FROM users, ROW_NUMBER() OVER (ORDER BY dt_added DESC)
GetUsers(s, page, perPage, tie) ==
    SetIdWindow(OrderByDesc(s.users, "dt_added", tie), PageWindow(page, perPage))

\* FTS5's default tokenizer (unicode61) makes a token of every maximal run of
\* letters and digits (case is folded; the texts of the model are lower case).
IsTokenChar(c) == c \in Letters \cup Digits

\* tok is one of the tokens of text
HasToken(text, tok) ==
    /\ tok # <<>>
    /\ \A m \in 1..Len(tok) : IsTokenChar(tok[m])
    /\ \E i \in 1..(Len(text) - Len(tok) + 1) :
          /\ SubSeq(text, i, i + Len(tok) - 1) = tok
          /\ (i = 1 \/ ~IsTokenChar(text[i - 1]))
          /\ (i + Len(tok) - 1 = Len(text) \/ ~IsTokenChar(text[i + Len(tok)]))

\* The tokens of a text, in order.
RECURSIVE Tokens(_)
Tokens(text) ==
    LET ink == {i \in 1..Len(text) : IsTokenChar(text[i])}
    IN IF ink = {} THEN <<>>
       ELSE LET a == Min(ink)
                sep == {i \in a..Len(text) : ~IsTokenChar(text[i])}
                b == IF sep = {} THEN Len(text) + 1 ELSE Min(sep)
            IN <<SubSeq(text, a, b - 1)>> \o Tokens(SubSeq(text, b, Len(text)))

\* The tokens toks stand next to each other, in this order, in a text whose
\* tokens are bodyToks.
HasPhrase(bodyToks, toks) ==
    \E i \in 1..(Len(bodyToks) - Len(toks) + 1) :
        SubSeq(bodyToks, i, i + Len(toks) - 1) = toks

\* body MATCH ?: the index entries whose body holds the term.  The terms are
\* one bare word, or what the handlers build: "#tag" in quotes, a phrase of
\* the tag's tokens, and "@<" * "url>", where the first phrase has no token
\* and the second is the phrase of the URL's tokens.
BodyMatch(s, searchTerm) ==
    LET toks == Tokens(Chars(searchTerm))
    IN IF Len(toks) = 0 THEN {}
       ELSE IF Len(toks) = 1 THEN {d \in s.fts : HasToken(Chars(d.body), toks[1])}
       ELSE {d \in s.fts : HasPhrase(Tokens(Chars(d.body)), toks)}

\* A search that filters on the copy of hidden the index took at insert.
SearchIndexStale(s, page, perPage, searchTerm, visibilityStatus, flag, tie) ==
    LET hits == {d.id : d \in {x \in BodyMatch(s, searchTerm) : x.hidden = visibilityStatus}}
        content == {t \in tweets_users(s) : t.id \in hits}
        sel == {t \in content : flag = "none" \/ t[flag] = 1}
    IN IF \E r \in hits : \A t \in content : t.id # r
       THEN <<>>
       ELSE SetIdWindow(OrderByDesc(sel, "dt", tie), PageWindow(page, perPage))

\* A SELECT ... FROM tweets_search WHERE tweets_search.hidden = ? [AND flag = 1]
\* AND body MATCH ?.  The index gives the matching rowids; the columns of
\* each are then read from the content table tweets_users.  FTS5 fails the
\* statement ("missing row from content table") when the index names a rowid
\* the content table no longer has; rows.Next() then ends the loop, rows.Err()
\* is not looked at, and the operation returns the rows it has so far: none.
SearchIndex(s, page, perPage, searchTerm, visibilityStatus, flag, tie) ==
    LET hits == {d.id : d \in BodyMatch(s, searchTerm)}
        content == {t \in tweets_users(s) : t.id \in hits}
        sel == {t \in content : t.hidden = visibilityStatus /\ (flag = "none" \/ t[flag] = 1)}
    IN IF \E r \in hits : \A t \in content : t.id # r
       THEN <<>>
       ELSE SetIdWindow(OrderByDesc(sel, "dt", tie), PageWindow(page, perPage))

SearchTweets(s, page, perPage, searchTerm, visibilityStatus, tie) ==
    SearchIndex(s, page, perPage, searchTerm, visibilityStatus, "none", tie)

SearchTags(s, page, perPage, searchTerm, visibilityStatus, tie) ==
    SearchIndex(s, page, perPage, searchTerm, visibilityStatus, "contains_tags", tie)

SearchMentions(s, page, perPage, searchTerm, visibilityStatus, tie) ==
    SearchIndex(s, page, perPage, searchTerm, visibilityStatus, "contains_mentions", tie)


---------------------------------------------------------------------------
(* The calls the model makes *)

\* Tweet values a caller passes in.  Mentions and Tags are fields of the
\* struct a caller may have filled, in agreement with the body or not.
T1 == [UserID |-> 1, DateTime |-> 1, Body |-> "hello", Mentions |-> <<>>, Tags |-> <<"test">>]
T2 == [UserID |-> 1, DateTime |-> 1, Body |-> "hello #test", Mentions |-> <<"bar">>, Tags |-> <<>>]
T3 == [UserID |-> 2, DateTime |-> 2, Body |-> "@<bar x.y> hello", Mentions |-> <<"bar">>, Tags |-> <<>>]

\* Arguments of InsertTweets: nothing, one entry, entries with one timestamp,
\* one entry twice, entries of two accounts.
TweetBatches == {<<>>, <<T1>>, <<T1, T2>>, <<T3, T3>>, <<T2, T3>>}

GoodURL == "https://example.com/twtxt.txt"
OtherURL == "https://ex.org/twtxt.txt"
BadURLs == {"", "gopher://x", "http://localhost", "http://127.0.0.1"}

GoodUsers == {[URL |-> GoodURL, Nick |-> "foo", HasHash |-> TRUE],
              [URL |-> OtherURL, Nick |-> "bar", HasHash |-> TRUE]}
UserInputs ==
    GoodUsers \cup {NilUser} \cup {[URL |-> b, Nick |-> "foo", HasHash |-> TRUE] : b \in BadURLs}

\* Users with nicknames in and out of the identifier charset, and users
\* with a field missing.
Nicks == {"foo", "foo_1", "foo bar", "a-b", "!!"}
NickInputs ==
    [URL : {GoodURL, OtherURL}, Nick : Nicks, HasHash : {TRUE}]
        \cup {[URL |-> "", Nick |-> "foo", HasHash |-> TRUE],
              [URL |-> GoodURL, Nick |-> "", HasHash |-> TRUE],
              [URL |-> GoodURL, Nick |-> "foo", HasHash |-> FALSE]}

\* User.ID is a string: 0 stands for "", i > 0 for the decimal text of i.
UserIDs == 0..MaxUserId
DeleteInputs == {NilUser} \cup {[ID |-> i] : i \in UserIDs}
URLLists == {<<>>, <<GoodURL>>, <<OtherURL>>, <<GoodURL, OtherURL>>}
\* Timestamps: 0 stands for the zero time.Time.
Times == 0..2
ToggleInputs == [userID : UserIDs, timestamp : Times, status : {StatusVisible, StatusHidden}]
SearchTerms == {"hello", "test"}

Idle == [pc |-> "idle"]
NoRet == [q |-> "none", err |-> "none", n |-> 0, status |-> 0, rows |-> <<>>]
NoPaging == [op |-> "none"]
NoFetch == [pc |-> "none"]

---------------------------------------------------------------------------
(* registry: the write operations as transactions *)

\* InsertUser's argument checks, for each user the model passes in.
UserChecks == [u \in UserInputs \cup NickInputs |-> InsertUserCheck(u)]

\* The early returns without the length test of InsertTweets.
PreCheckNoTweets(op, arg) ==
    CASE op = "InsertUser" -> UserChecks[arg]
      [] op = "InsertUsers" -> "none"
      [] op = "InsertTweets" -> "none"
      [] op = "DeleteUser" -> IF arg = NilUser \/ arg.ID = 0 THEN "ErrNoUsersProvided" ELSE "none"
      [] op = "DeleteUsers" -> IF Len(arg) < 1 THEN "ErrNoUsersProvided" ELSE "none"
      [] op = "ToggleTweetHiddenStatus" ->
            IF arg.userID = 0 \/ arg.timestamp = 0
            THEN "invalid user ID or tweet timestamp provided" ELSE "none"

\* The early returns of each operation, before conn.Begin().
PreCheck(op, arg) ==
    CASE op = "InsertUser" -> UserChecks[arg]
      [] op = "InsertUsers" -> "none"
      [] op = "InsertTweets" -> IF Len(arg) = 0 THEN "invalid tweets provided" ELSE "none"
      [] op = "DeleteUser" -> IF arg = NilUser \/ arg.ID = 0 THEN "ErrNoUsersProvided" ELSE "none"
      [] op = "DeleteUsers" -> IF Len(arg) < 1 THEN "ErrNoUsersProvided" ELSE "none"
      [] op = "ToggleTweetHiddenStatus" ->
            IF arg.userID = 0 \/ arg.timestamp = 0
            THEN "invalid user ID or tweet timestamp provided" ELSE "none"

\* The statements an operation executes inside its transaction, on the
\* database s it sees.  failAt is the statement whose ExecContext fails, 0 if
\* none does.
Stmts(s, op, arg, failAt) ==
    CASE op = "InsertUser" ->
            IF failAt = 1 THEN [err |-> "exec", s |-> s, n |-> 0] ELSE ExecInsertUser(s, arg)
      [] op = "InsertUsers" -> InsertUsersLoop(s, arg, 1, failAt, <<>>)
      [] op = "InsertTweets" -> InsertTweetsLoop(s, arg, 1, failAt)
      [] op = "DeleteUser" -> DeleteUserStmts(s, arg.ID, failAt)
      [] op = "DeleteUsers" -> DeleteUsersLoop(s, arg, 1, failAt, 0)
      [] op = "ToggleTweetHiddenStatus" ->
            ExecToggle(s, arg.userID, arg.timestamp, arg.status, failAt = 1)

\* return from a registry call; rows are the users InsertUsers returns
ReturnRows(p, op, err, n, rows) ==
    /\ ret' = [q |-> "none", err |-> err, n |-> n, status |-> 0, rows |-> rows]
    /\ proc' = [proc EXCEPT ![p] = Idle]

Return(p, op, err, n) == ReturnRows(p, op, err, n, <<>>)

\* The statements of a call without the deferred tx.Rollback(): what ran
\* before the failing statement stays in the database.
ExecNoRollback(p, op, arg, failAt) ==
    LET r == Stmts(db, op, arg, failAt)
    IN /\ writer = 0
       /\ r.s.userSeq <= MaxUserId
       /\ r.s.tweetSeq <= MaxTweetId
       /\ IF r.err # "none"
          THEN /\ Return(p, op, r.err, 0)
               /\ db' = r.s
               /\ UNCHANGED <<tx, writer>>
          ELSE /\ tx' = r.s
               /\ writer' = p
               /\ proc' = [proc EXCEPT ![p] = [pc |-> "commit", op |-> op, arg |-> arg, n |-> r.n,
                                                out |-> IF op = "InsertUsers" THEN r.added
                                                        ELSE <<>>,
                                                canceled |-> FALSE,
                                                waited |-> proc[p].pc = "waiting"]]
               /\ UNCHANGED <<db, ret>>

\* The statements run with SQLite's write lock.  An error returns through the
\* deferred tx.Rollback(), which leaves the database as it was; otherwise the
\* call stands before tx.Commit() with its changes in the transaction.
Exec(p, op, arg, failAt) ==
    LET r == Stmts(db, op, arg, failAt)
    IN /\ writer = 0
       /\ r.s.userSeq <= MaxUserId
       /\ r.s.tweetSeq <= MaxTweetId
       /\ IF r.err # "none"
          THEN /\ Return(p, op, r.err, 0)
               /\ UNCHANGED <<db, tx, writer>>
          ELSE /\ tx' = r.s
               /\ writer' = p
               /\ proc' = [proc EXCEPT ![p] = [pc |-> "commit", op |-> op, arg |-> arg, n |-> r.n,
                                                out |-> IF op = "InsertUsers" THEN r.added
                                                        ELSE <<>>,
                                                canceled |-> FALSE,
                                                waited |-> proc[p].pc = "waiting"]]
               /\ UNCHANGED <<db, ret>>

\* A call from its entry to its first return or to tx.Commit().  While another
\* transaction holds the write lock the first statement fails with "database
\* is locked" once the busy timeout is over.
Call(p, op, arg, failAt) ==
    /\ proc[p] = Idle
    /\ IF PreCheck(op, arg) # "none"
       THEN /\ Return(p, op, PreCheck(op, arg), 0)
            /\ UNCHANGED <<db, tx, writer>>
       ELSE IF writer # 0
       THEN /\ Return(p, op, "busy", 0)
            /\ UNCHANGED <<db, tx, writer>>
       ELSE Exec(p, op, arg, failAt)
    /\ UNCHANGED <<pg, ft>>

\* The first statement of a call finds the write lock taken and waits in
\* SQLite's busy handler.
Block(p, op, arg) ==
    /\ proc[p] = Idle
    /\ PreCheck(op, arg) = "none"
    /\ writer # 0
    /\ proc' = [proc EXCEPT ![p] = [pc |-> "waiting", op |-> op, arg |-> arg]]
    /\ UNCHANGED <<db, tx, writer, ret, pg, ft>>

\* The lock is free: the waiting call runs its statements.
Resume(p, failAt) ==
    /\ proc[p].pc = "waiting"
    /\ Exec(p, proc[p].op, proc[p].arg, failAt)
    /\ UNCHANGED <<pg, ft>>

\* The busy timeout ends the wait.
Timeout(p) ==
    /\ proc[p].pc = "waiting"
    /\ writer # 0
    /\ Return(p, proc[p].op, "busy", 0)
    /\ UNCHANGED <<db, tx, writer, pg, ft>>

\* tx.Commit(): the changes become the database, or (ok = FALSE) the commit
\* fails and they are dropped.
Commit(p, ok) ==
    /\ proc[p].pc = "commit"
    /\ writer = p
    /\ db' = IF ok THEN tx ELSE db
    /\ tx' = NoTx
    /\ writer' = 0
    /\ ReturnRows(p, proc[p].op, IF ok THEN "none" ELSE "commit",
                  IF ok /\ proc[p].op \in {"DeleteUser", "DeleteUsers"} THEN proc[p].n ELSE 0,
                  IF ok THEN proc[p].out ELSE <<>>)
    /\ UNCHANGED <<pg, ft>>

\* The caller's context is canceled while the call stands between its last
\* statement and tx.Commit().  The transaction was opened with conn.Begin(),
\* under context.Background(): Commit does not look at the caller's context.
CancelContext(p) ==
    /\ proc[p].pc = "commit"
    /\ ~proc[p].canceled
    /\ proc' = [proc EXCEPT ![p].canceled = TRUE]
    /\ UNCHANGED <<db, tx, writer, ret, pg, ft>>

InsertUser(p, u, failAt) == Call(p, "InsertUser", u, failAt)

InsertUsers(p, users, failAt) == Call(p, "InsertUsers", users, failAt)

InsertTweets(p, tweets, failAt) == Call(p, "InsertTweets", tweets, failAt)

DeleteUser(p, u, failAt) == Call(p, "DeleteUser", u, failAt)

DeleteUsers(p, urls, failAt) == Call(p, "DeleteUsers", urls, failAt)

ToggleTweetHiddenStatus(p, arg, failAt) == Call(p, "ToggleTweetHiddenStatus", arg, failAt)

---------------------------------------------------------------------------
(* The store, one caller at a time *)

Init ==
    /\ db = EmptyDB
    /\ tx = NoTx
    /\ writer = 0
    /\ proc = [p \in Procs |-> Idle]
    /\ ret = NoRet
    /\ pg = NoPaging
    /\ ft = NoFetch

Next ==
    \/ \E u \in UserInputs, failAt \in 0..1 : InsertUser(1, u, failAt)
    \/ \E tweets \in TweetBatches, failAt \in 0..2 : InsertTweets(1, tweets, failAt)
    \/ \E u \in DeleteInputs, failAt \in 0..2 : DeleteUser(1, u, failAt)
    \/ \E urls \in URLLists, failAt \in 0..1 : DeleteUsers(1, urls, failAt)
    \/ \E ok \in BOOLEAN : Commit(1, ok)

Spec == Init /\ [][Next]_vars

\* Every entry of the list E is stored in s.
AllStored(s, E) ==
    \A i \in 1..Len(E) :
        \E t \in s.tweets :
            t.user_id = E[i].UserID /\ t.dt = E[i].DateTime /\ t.body = E[i].Body

\* C1: idempotent ingestion.  Once the entries of a non-empty list E are
\* stored, InsertTweets(E) whose statements and commit are not failed from
\* outside runs all its statements without an error and commits with nil, and
\* the set of stored entries after it is the set before it.
C1_IdempotentIngestion ==
    [][\A E \in TweetBatches \ {<<>>} :
          AllStored(db, E) =>
             /\ InsertTweets(1, E, 0) =>
                   /\ proc'[1].pc = "commit"
                   /\ tx'.tweets = db.tweets
             /\ (/\ proc[1].pc = "commit"
                 /\ proc[1].op = "InsertTweets"
                 /\ proc[1].arg = E
                 /\ Commit(1, TRUE)) =>
                   /\ ret'.err = "none"
                   /\ db'.tweets = db.tweets]_vars

\* A second InsertTweets of two stored entries stands before its commit and
\* has added nothing.
C1_Witness ==
    /\ proc[1].pc = "commit"
    /\ proc[1].op = "InsertTweets"
    /\ Len(proc[1].arg) = 2
    /\ AllStored(db, proc[1].arg)
    /\ Cardinality(db.tweets) = 2
    /\ tx.tweets = db.tweets

\* C4: index/primary consistency.  In every committed state the entries of
\* the search index are the entries of the tweets table.
C4_IndexEqualsPrimary ==
    {<<d.id, d.body>> : d \in db.fts} = {<<t.id, t.body>> : t \in db.tweets}

\* C7: derived flags.  Every stored entry, committed or in the open
\* transaction, has contains_mentions = 1 exactly when its body matches the
\* mention pattern and contains_tags = 1 exactly when it matches the tag
\* pattern, whatever Mentions and Tags the caller passed.
FlagsMatchBody(s) ==
    \A t \in s.tweets :
        /\ t.contains_mentions = (IF RegexTweetContainsMentions(Chars(t.body)) THEN 1 ELSE 0)
        /\ t.contains_tags = (IF RegexTweetContainsTags(Chars(t.body)) THEN 1 ELSE 0)

C7_DerivedFlags == FlagsMatchBody(db) /\ (tx # NoTx => FlagsMatchBody(tx))

\* Entries with a tag, with a mention and with neither have been stored by
\* calls whose Mentions and Tags disagreed with the bodies.
C7_Witness ==
    /\ \E t \in db.tweets : t.contains_tags = 1 /\ t.contains_mentions = 0 /\ t.body = T2.Body
    /\ \E t \in db.tweets : t.contains_tags = 0 /\ t.contains_mentions = 1 /\ t.body = T3.Body

\* C10: URL rejection at registration.  InsertUser with the URL "",
\* "gopher://x", "http://localhost" or "http://127.0.0.1" returns
\* ErrIncompleteUserInfo or ErrUserURLIsNotTwtxtFile (the handlers answer both
\* with 400) and leaves the database and the transaction alone; InsertUser
\* of "https://example.com/twtxt.txt" with a nickname and a passcode hash,
\* when that URL is not registered and no statement is failed from outside,
\* adds exactly one account with that URL and commits with nil.
C10_URLRejection ==
    [][/\ \A u \in UserInputs \ {NilUser}, failAt \in 0..1 :
            (u.URL \in BadURLs /\ InsertUser(1, u, failAt)) =>
                /\ ret'.err \in {"ErrIncompleteUserInfo", "ErrUserURLIsNotTwtxtFile"}
                /\ proc'[1] = Idle
                /\ db' = db /\ tx' = tx
       /\ \A u \in GoodUsers :
            (/\ u.URL = GoodURL
             /\ \A x \in db.users : x.url # GoodURL
             /\ InsertUser(1, u, 0)) =>
                /\ proc'[1].pc = "commit"
                /\ Cardinality({x \in tx'.users : x.url = GoodURL}) = 1
                /\ Cardinality(tx'.users) = Cardinality(db.users) + 1
       /\ (/\ proc[1].pc = "commit"
           /\ proc[1].op = "InsertUser"
           /\ proc[1].arg.URL = GoodURL
           /\ Commit(1, TRUE)) =>
                /\ ret'.err = "none"
                /\ Cardinality({x \in db'.users : x.url = GoodURL}) = 1
                /\ Cardinality(db'.users) = Cardinality(db.users) + 1]_vars

\* The good URL is registered, alone, and a registration has just been
\* turned down for its URL.
C10_Witness ==
    /\ {x.url : x \in db.users} = {GoodURL}
    /\ ret.err = "ErrUserURLIsNotTwtxtFile"
    /\ proc[1] = Idle

---------------------------------------------------------------------------
(* The store under concurrent callers of InsertTweets *)

NextConc ==
    \E p \in Procs :
        \/ \E u \in GoodUsers : InsertUser(p, u, 0)
        \/ \E tweets \in TweetBatches : InsertTweets(p, tweets, 0)
        \/ \E tweets \in TweetBatches : Block(p, "InsertTweets", tweets)
        \/ Resume(p, 0)
        \/ Timeout(p)
        \/ Commit(p, TRUE)

SpecConc == Init /\ [][NextConc]_vars

NoDuplicateKeys(s) == \A a, b \in s.tweets : SameKey(a, b) => a = b

\* C2: entry uniqueness under concurrency.  No two stored entries, committed
\* or in the open transaction, have the same (account id, timestamp, body),
\* however the InsertTweets calls of two processes interleave; a call that
\* returns returns nil, the empty-list error or SQLite's busy error, never
\* an error for a duplicate, and when it commits every entry of its list is
\* stored.
C2_UniqueUnderConcurrency ==
    /\ [](NoDuplicateKeys(db) /\ (tx # NoTx => NoDuplicateKeys(tx)))
    /\ [][\A p \in Procs :
             /\ (\/ \E E \in TweetBatches : InsertTweets(p, E, 0)
                 \/ (/\ proc[p].pc = "waiting"
                     /\ proc[p].op = "InsertTweets"
                     /\ (Resume(p, 0) \/ Timeout(p)))) =>
                   \/ proc'[p].pc = "commit"
                   \/ ret'.err \in {"invalid tweets provided", "busy"}
             /\ (/\ proc[p].pc = "commit"
                 /\ proc[p].op = "InsertTweets"
                 /\ Commit(p, TRUE)) =>
                   /\ ret'.err = "none"
                   /\ AllStored(db', proc[p].arg)
                   /\ NoDuplicateKeys(db')]_vars

\* Two processes are inside InsertTweets with the same list: one has
\* inserted its rows and stands before its commit, the other waits for the
\* write lock.
C2_Witness ==
    /\ proc[1].pc = "commit" /\ proc[1].op = "InsertTweets"
    /\ proc[2].pc = "waiting" /\ proc[2].op = "InsertTweets"
    /\ proc[2].arg = proc[1].arg
    /\ tx.tweets # db.tweets

---------------------------------------------------------------------------
(* The store and its readers *)

TweetQueryOps ==
    {"GetTweets", "SearchTweets", "GetTags", "SearchTags", "GetMentions", "SearchMentions"}
QueryOps == TweetQueryOps \cup {"GetUsers"}
QueryInputs ==
    [op : QueryOps, page : {1}, perPage : {EntriesPerPageMin}, term : SearchTerms,
     status : {StatusVisible, StatusHidden}, tie : TieOrders]

RunQuery(s, q) ==
    CASE q.op = "GetTweets" -> GetTweets(s, q.page, q.perPage, q.status, q.tie)
      [] q.op = "SearchTweets" -> SearchTweets(s, q.page, q.perPage, q.term, q.status, q.tie)
      [] q.op = "GetTags" -> GetTags(s, q.page, q.perPage, q.status, q.tie)
      [] q.op = "SearchTags" -> SearchTags(s, q.page, q.perPage, q.term, q.status, q.tie)
      [] q.op = "GetMentions" -> GetMentions(s, q.page, q.perPage, q.status, q.tie)
      [] q.op = "SearchMentions" -> SearchMentions(s, q.page, q.perPage, q.term, q.status, q.tie)
      [] q.op = "GetUsers" -> GetUsers(s, q.page, q.perPage, q.tie)

\* One query on the committed database; the queries return no error the
\* model produces.
Query(q) ==
    /\ proc[1] = Idle
    /\ ret' = [q |-> q.op, err |-> "none", n |-> 0, status |-> q.status, rows |-> RunQuery(db, q)]
    /\ UNCHANGED <<db, tx, writer, proc, pg, ft>>

NextQuery ==
    \/ \E u \in {x \in GoodUsers : x.URL = GoodURL} : InsertUser(1, u, 0)
    \/ \E tweets \in TweetBatches \ {<<>>} : InsertTweets(1, tweets, 0)
    \/ \E i \in 1..MaxUserId : DeleteUser(1, [ID |-> i], 0)
    \/ \E arg \in {x \in ToggleInputs : PreCheck("ToggleTweetHiddenStatus", x) = "none"} :
          ToggleTweetHiddenStatus(1, arg, 0)
    \/ Commit(1, TRUE)
    \/ \E q \in QueryInputs : Query(q)

SpecQuery == Init /\ [][NextQuery]_vars

UserIdsOf(s) == {u.id : u \in s.users}

C6_HiddenStayHidden ==
    ret.q \in TweetQueryOps =>
        \A i \in 1..Len(ret.rows) :
            \E t \in db.tweets : /\ t.id = ret.rows[i].id
                                 /\ t.hidden = ret.status
                                 /\ t.hidden = ret.rows[i].hidden

\* A search for visible entries has returned a row while an entry that was
\* indexed as visible, and is hidden now, is stored with its account.
C6_Witness ==
    /\ ret.q = "SearchTweets" /\ ret.status = StatusVisible
    /\ Len(ret.rows) = 1
    /\ \E t \in tweets_users(db) : t.hidden = StatusHidden

---------------------------------------------------------------------------
(* A client reading a listing page by page *)

\* The listing is read from a database that does not change meanwhile.  Each
\* row of tweets is visible, hidden, or left behind by an account that is gone
\* (InsertTweets does not look the account up); timestamps repeat.
MaxRows == 4

PageBodies == <<"hello", "hello #test", "@<bar x.y> hello", "test", "foo", "bar">>
PageURLs == <<GoodURL, OtherURL, "https://a.org/twtxt.txt", "https://b.org/twtxt.txt",
              "https://c.org/twtxt.txt", "https://d.org/twtxt.txt">>
RowKinds == {"visible", "hidden", "orphan"}

PageTweet(i, dt, kind) ==
    [id |-> i, user_id |-> IF kind = "orphan" THEN 2 ELSE 1, dt |-> dt, body |-> PageBodies[i],
     contains_mentions |-> IF RegexTweetContainsMentions(Chars(PageBodies[i])) THEN 1 ELSE 0,
     contains_tags |-> IF RegexTweetContainsTags(Chars(PageBodies[i])) THEN 1 ELSE 0,
     hidden |-> IF kind = "hidden" THEN StatusHidden ELSE StatusVisible]

PageUser(i, dt) ==
    [id |-> i, url |-> PageURLs[i], nick |-> "foo", dt_added |-> dt, last_sync |-> 0]

\* The databases with k entries of the one account (and of a missing one).
TweetDBs ==
    UNION {{[users |-> {PageUser(1, 1)},
             tweets |-> {PageTweet(i, dts[i], kinds[i]) : i \in 1..k},
             fts |-> {[PageTweet(i, dts[i], kinds[i]) EXCEPT !.hidden = StatusVisible] : i \in 1..k},
             userSeq |-> 1, tweetSeq |-> k] :
              dts \in [1..k -> 1..2], kinds \in [1..k -> RowKinds]} : k \in 0..MaxRows}

\* The databases with k accounts and no entries.
UserDBs ==
    UNION {{[users |-> {PageUser(i, dts[i]) : i \in 1..k}, tweets |-> {}, fts |-> {},
             userSeq |-> k, tweetSeq |-> 0] : dts \in [1..k -> 1..2]} : k \in 0..MaxRows}

\* The rows the statement of the listing selects, before the window.
ResultSet(s, op, status) ==
    IF op = "GetUsers" THEN s.users ELSE {t \in s.tweets : t.hidden = status}

\* ceil(total / perPage)
NumPages(total, perPage) == (total + perPage - 1) \div perPage

InitPage ==
    /\ tx = NoTx
    /\ writer = 0
    /\ proc = [p \in Procs |-> Idle]
    /\ ret = NoRet
    /\ ft = NoFetch
    /\ \E op \in {"GetTweets", "GetUsers"} :
          /\ db \in (IF op = "GetUsers" THEN UserDBs ELSE TweetDBs)
          /\ pg \in [op : {op}, perPage : EntriesPerPageMin..EntriesPerPageMax,
                     status : IF op = "GetUsers" THEN {StatusVisible}
                              ELSE {StatusVisible, StatusHidden},
                     tie : TieOrders, page : {0}, rows : {<<>>}]

\* The client asks for the next page, up to page ceil(total / perPage).
NextPage ==
    /\ pg.page < NumPages(Cardinality(ResultSet(db, pg.op, pg.status)), pg.perPage)
    /\ pg' = [pg EXCEPT !.page = @ + 1,
                        !.rows = @ \o (IF pg.op = "GetUsers"
                                       THEN GetUsers(db, pg.page + 1, pg.perPage, pg.tie)
                                       ELSE GetTweets(db, pg.page + 1, pg.perPage, pg.status, pg.tie))]
    /\ UNCHANGED <<db, tx, writer, proc, ret, ft>>

SpecPage == InitPage /\ [][NextPage]_vars

RowsOf(seq) == {seq[i] : i \in 1..Len(seq)}

\* C3: pagination partition.  When the client has read pages
\* 1..ceil(total / P) of GetTweets or GetUsers, the rows it has are the rows
\* of the result set, each once, in descending order of the timestamp.
C3_PaginationPartition ==
    LET all == ResultSet(db, pg.op, pg.status)
        key == IF pg.op = "GetUsers" THEN "dt_added" ELSE "dt"
    IN (pg.op # "none" /\ pg.page = NumPages(Cardinality(all), pg.perPage)) =>
          /\ RowsOf(pg.rows) = all
          /\ Len(pg.rows) = Cardinality(all)
          /\ \A i, j \in 1..Len(pg.rows) : i < j => pg.rows[i][key] >= pg.rows[j][key]

---------------------------------------------------------------------------
(* common.IsValidURL and registry.FetchTwtxt *)

\* strings.Contains(s, sub)
Contains(s, sub) ==
    \E i \in 1..(Len(s) - Len(sub) + 1) : SubSeq(s, i, i + Len(sub) - 1) = sub

\* strings.Split(s, sep) for a one-character sep
RECURSIVE Split(_, _)
Split(s, sep) ==
    LET i == IndexOf(s, sep)
    IN IF i = 0 THEN <<s>> ELSE <<Before(s, i)>> \o Split(After(s, i), sep)

\* strings.TrimSpace(s).  unicode.IsSpace also knows \v, U+0085 and U+00A0,
\* which no text of the model has.
TrimSpace(s) ==
    LET ink == {i \in 1..Len(s) : ~IsSpace(s[i])}
    IN IF ink = {} THEN <<>> ELSE SubSeq(s, Min(ink), Max(ink))

\* strings.Fields(s): the maximal runs of non-space characters
RECURSIVE Fields(_)
Fields(s) ==
    LET ink == {i \in 1..Len(s) : ~IsSpace(s[i])}
    IN IF ink = {} THEN <<>>
       ELSE LET a == Min(ink)
                sp == {i \in a..Len(s) : IsSpace(s[i])}
                b == IF sp = {} THEN Len(s) + 1 ELSE Min(sp)
            IN <<SubSeq(s, a, b - 1)>> \o Fields(SubSeq(s, b, Len(s)))

DigitVal ==
    ("0" :> 0) @@ ("1" :> 1) @@ ("2" :> 2) @@ ("3" :> 3) @@ ("4" :> 4)
 @@ ("5" :> 5) @@ ("6" :> 6) @@ ("7" :> 7) @@ ("8" :> 8) @@ ("9" :> 9)

AllDigits(s, a, b) == \A m \in a..b : s[m] \in Digits
TwoDigits(s, a) == 10 * DigitVal[s[a]] + DigitVal[s[a + 1]]

\* net.ParseIP(host).IsLoopback() for a dotted quad: 127.x.y.z.  (An IPv6
\* literal stands in brackets in a URL's host, which ParseIP does not read.)
IsLoopback(host) ==
    LET parts == Split(host, ".")
    IN /\ Len(parts) = 4
       /\ \A k \in 1..4 : /\ Len(parts[k]) \in 1..3
                          /\ AllDigits(parts[k], 1, Len(parts[k]))
       /\ parts[1] = <<"1", "2", "7">>

IsValidURL(destURL) ==
    IF TrimSpace(destURL) = <<>> THEN FALSE
    ELSE LET parsedURL == ParseURL(destURL)
         IN IF parsedURL.err THEN FALSE
            ELSE IF parsedURL.Host = <<"l", "o", "c", "a", "l", "h", "o", "s", "t">> THEN FALSE
            ELSE IF IsLoopback(parsedURL.Host) THEN FALSE
            ELSE IF /\ parsedURL.Scheme # <<"h", "t", "t", "p", "s">>
                    /\ parsedURL.Scheme # <<"h", "t", "t", "p">> THEN FALSE
            ELSE TRUE

\* time.Parse(time.RFC3339, s) and time.Parse(time.RFC3339Nano, s): both
\* layouts read yyyy-mm-ddThh:mm:ss, an optional fraction of a second, and
\* Z or a +hh:mm / -hh:mm offset.  The instant is kept as its text.
ParseTime(s) ==
    LET n == Len(s)
        dateTime ==
            /\ n >= 20
            /\ AllDigits(s, 1, 4) /\ s[5] = "-" /\ AllDigits(s, 6, 7) /\ s[8] = "-"
            /\ AllDigits(s, 9, 10) /\ s[11] = "T" /\ AllDigits(s, 12, 13) /\ s[14] = ":"
            /\ AllDigits(s, 15, 16) /\ s[17] = ":" /\ AllDigits(s, 18, 19)
            /\ TwoDigits(s, 6) \in 1..12 /\ TwoDigits(s, 9) \in 1..31
            /\ TwoDigits(s, 12) <= 23 /\ TwoDigits(s, 15) <= 59 /\ TwoDigits(s, 18) <= 59
        nonDigit == {i \in 21..n : s[i] \notin Digits}
        z == IF n >= 20 /\ s[20] = "." /\ nonDigit # {} /\ Min(nonDigit) > 21
             THEN Min(nonDigit) ELSE 20
        zone ==
            \/ z = n /\ s[z] = "Z"
            \/ /\ z + 5 = n /\ s[z] \in {"+", "-"}
               /\ AllDigits(s, z + 1, z + 2) /\ s[z + 3] = ":" /\ AllDigits(s, z + 4, z + 5)
               /\ TwoDigits(s, z + 1) <= 23 /\ TwoDigits(s, z + 4) <= 59
    IN IF dateTime /\ zone THEN [err |-> FALSE, t |-> s] ELSE [err |-> TRUE, t |-> <<>>]

\* The loop of FetchTwtxt over the lines of the body.  tweetHalves[1] of a
\* line with one field is an index out of range: the goroutine panics.
RECURSIVE FetchLines(_, _, _, _)
FetchLines(bodySplit, i, userID, tweets) ==
    IF i > Len(bodySplit) THEN [kind |-> "return", err |-> "none", nil |-> FALSE, tweets |-> tweets]
    ELSE LET e == TrimSpace(bodySplit[i])
             tweetHalves == Fields(e)
         IN IF HasPrefix(e, <<"#">>) \/ e = <<>>
            THEN FetchLines(bodySplit, i + 1, userID, tweets)
            ELSE IF Len(tweetHalves) < 2
            THEN [kind |-> "panic", err |-> "index out of range", nil |-> TRUE, tweets |-> <<>>]
            ELSE LET parsed == ParseTime(tweetHalves[1])
                     thisTweet == [UserID |-> userID, Body |-> tweetHalves[2], DateTime |-> parsed.t]
                 IN IF parsed.err
                    THEN FetchLines(bodySplit, i + 1, userID, tweets)
                    ELSE FetchLines(bodySplit, i + 1, userID, Append(tweets, thisTweet))

\* The body of a response whose lines are given, as one text.
RECURSIVE JoinLines(_)
JoinLines(lines) ==
    IF lines = <<>> THEN <<>>
    ELSE IF Len(lines) = 1 THEN Chars(lines[1])
    ELSE Chars(lines[1]) \o <<"\n">> \o JoinLines(Tail(lines))

FetchError(msg) == [kind |-> "return", err |-> msg, nil |-> TRUE, tweets |-> <<>>]

\* FetchTwtxt without its StatusNotModified branch: a 304 is a status other
\* than 200.
FetchTwtxtNo304(twtxtURL, userID, clientNil, resp) ==
    IF ~IsValidURL(Chars(twtxtURL)) THEN FetchError("invalid URL provided")
    ELSE IF clientNil THEN FetchError("nil HTTP client")
    ELSE IF resp.err THEN FetchError("error making http request")
    ELSE IF resp.status # 200 THEN FetchError("got status code")
    ELSE IF ~Contains(Chars(resp.contentType), <<"t", "e", "x", "t", "/", "p", "l", "a", "i", "n">>)
         THEN FetchError("received non-text/plain content type")
    ELSE FetchLines(Split(JoinLines(resp.body), "\n"), 1, userID, <<>>)

\* FetchTwtxt(twtxtURL, userID, lastModified) with the HTTP client's answer
\* resp: a transport error, or a status, a content type and a body.
FetchTwtxt(twtxtURL, userID, clientNil, resp) ==
    IF ~IsValidURL(Chars(twtxtURL)) THEN FetchError("invalid URL provided")
    ELSE IF clientNil THEN FetchError("nil HTTP client")
    ELSE IF resp.err THEN FetchError("error making http request")
    ELSE IF resp.status = 304 THEN [kind |-> "return", err |-> "none", nil |-> TRUE, tweets |-> <<>>]
    ELSE IF resp.status # 200 THEN FetchError("got status code")
    ELSE IF ~Contains(Chars(resp.contentType), <<"t", "e", "x", "t", "/", "p", "l", "a", "i", "n">>)
         THEN FetchError("received non-text/plain content type")
    ELSE FetchLines(Split(JoinLines(resp.body), "\n"), 1, userID, <<>>)

\* Lines a feed is made of, and the feeds of up to MaxLines lines.
MaxLines == 2

FeedLines ==
    {"2023-01-01T00:00:00Z\thello there", "2023-01-02T00:00:00.5Z hello", "# a comment", "",
     "1672531200\thello", "2023-01-03T00:00:00Z", "  2023-01-04T00:00:00Z  hello  ", "hello"}

Feeds == UNION {[1..k -> FeedLines] : k \in 0..MaxLines}

Responses ==
    {[err |-> TRUE, status |-> 0, contentType |-> "", body |-> <<>>]}
        \cup [err : {FALSE}, status : {304, 404}, contentType : {"text/plain; charset=utf-8"},
              body : {<<>>}]
        \cup [err : {FALSE}, status : {200}, contentType : {"text/html"}, body : {<<>>}]
        \cup [err : {FALSE}, status : {200}, contentType : {"text/plain; charset=utf-8"},
              body : Feeds]

FetchURLs ==
    {GoodURL, OtherURL, "http://localhost", "", "gopher://x", "http://127.0.0.1", ":x",
     "http://localhost/twtxt.txt", "http://localhost:8080/twtxt.txt",
     "http://127.0.0.1:8080/twtxt.txt"}

\* FetchTwtxt reaches d.Client.Do(req): the URL passed IsValidURL and the
\* client is not nil (http.NewRequest accepts what url.Parse accepted).
ClientDo(twtxtURL, clientNil) == IsValidURL(Chars(twtxtURL)) /\ ~clientNil

\* One call of FetchTwtxt, from its arguments to its return or panic.
Fetch(twtxtURL, clientNil, resp) ==
    /\ ft = NoFetch
    /\ ft' = [pc |-> "done", url |-> twtxtURL, clientNil |-> clientNil, resp |-> resp,
              req |-> ClientDo(twtxtURL, clientNil),
              out |-> FetchTwtxt(twtxtURL, 1, clientNil, resp)]
    /\ UNCHANGED <<db, tx, writer, proc, ret, pg>>

NextFetch ==
    \E twtxtURL \in FetchURLs, clientNil \in BOOLEAN, resp \in Responses :
        Fetch(twtxtURL, clientNil, resp)

SpecFetch == Init /\ [][NextFetch]_vars

\* The lines of a body that are neither blank nor comments, trimmed.
RECURSIVE EntryLines(_)
EntryLines(lines) ==
    IF lines = <<>> THEN <<>>
    ELSE LET e == TrimSpace(Head(lines))
         IN (IF e = <<>> \/ HasPrefix(e, <<"#">>) THEN <<>> ELSE <<e>>) \o EntryLines(Tail(lines))

\* The text of a line before its first run of whitespace, and the text after
\* that run.
FirstField(e) ==
    LET sp == {i \in 1..Len(e) : IsSpace(e[i])}
    IN IF sp = {} THEN e ELSE SubSeq(e, 1, Min(sp) - 1)

Remainder(e) ==
    LET sp == {i \in 1..Len(e) : IsSpace(e[i])}
        ink == IF sp = {} THEN {} ELSE {i \in Min(sp)..Len(e) : ~IsSpace(e[i])}
    IN IF ink = {} THEN <<>> ELSE SubSeq(e, Min(ink), Len(e))

RECURSIVE SelectSeq2(_, _)
SelectSeq2(seq, keep) ==
    IF seq = <<>> THEN <<>>
    ELSE (IF Head(seq) \in keep THEN <<Head(seq)>> ELSE <<>>) \o SelectSeq2(Tail(seq), keep)

Answered200(f) ==
    /\ f.pc = "done"
    /\ IsValidURL(Chars(f.url)) /\ ~f.clientNil
    /\ ~f.resp.err /\ f.resp.status = 200 /\ f.resp.contentType = "text/plain; charset=utf-8"

\* C8: feed line parsing.  When FetchTwtxt returns the entries of a body,
\* there is one entry for every non-blank, non-comment line whose timestamp
\* parses, in order; its timestamp is the text before the first run of
\* whitespace and its body is all of the line after that run.
C8_BodyIsRemainder ==
    (Answered200(ft) /\ ft.out.kind = "return") =>
        LET lines == EntryLines(Split(JoinLines(ft.resp.body), "\n"))
            good == SelectSeq2(lines, {e \in RowsOf(lines) : ~ParseTime(FirstField(e)).err})
        IN /\ Len(ft.out.tweets) = Len(good)
           /\ \A i \in 1..Len(good) :
                 /\ ft.out.tweets[i].DateTime = ParseTime(FirstField(good[i])).t
                 /\ ft.out.tweets[i].Body = Remainder(good[i])

\* C9: fetcher partial success.  For a body answered with 200 and
\* text/plain, FetchTwtxt returns, without an error, and the entries it
\* returns are, in order, those of the lines that have a timestamp that
\* parses and a body; every other line is skipped.
C9_PartialSuccess ==
    Answered200(ft) =>
        LET lines == EntryLines(Split(JoinLines(ft.resp.body), "\n"))
            good == SelectSeq2(lines, {e \in RowsOf(lines) :
                        ~ParseTime(FirstField(e)).err /\ Remainder(e) # <<>>})
        IN /\ ft.out.kind = "return"
           /\ ft.out.err = "none"
           /\ Len(ft.out.tweets) = Len(good)
           /\ \A i \in 1..Len(good) :
                 ft.out.tweets[i].DateTime = ParseTime(FirstField(good[i])).t

---------------------------------------------------------------------------
(* C11: the fetcher's URL guard *)

\* The host of an authority without its port.
HostName(host) ==
    LET c == LastIndexOf(host, ":")
    IN IF c = 0 THEN host ELSE Before(host, c)

\* The URLs the fetcher has to refuse: empty, unparseable, a scheme other
\* than http and https, or a host that is localhost or a loopback address,
\* with or without a port.
RefusedURL(u) ==
    \/ TrimSpace(u) = <<>>
    \/ ParseURL(u).err
    \/ ParseURL(u).Scheme \notin {<<"h", "t", "t", "p">>, <<"h", "t", "t", "p", "s">>}
    \/ HostName(ParseURL(u).Host) = <<"l", "o", "c", "a", "l", "h", "o", "s", "t">>
    \/ IsLoopback(HostName(ParseURL(u).Host))

\* C11: fetcher URL guard.  For every URL that is empty, unparseable, not
\* http or https, or that names localhost or a loopback address (whatever
\* its port or path), FetchTwtxt returns an error and no HTTP request is
\* made.
C11_FetcherURLGuard ==
    (ft.pc = "done" /\ RefusedURL(Chars(ft.url))) =>
        (ft.out.kind = "return" /\ ft.out.err # "none" /\ ~ft.req)

---------------------------------------------------------------------------
(* cmd/getwtxt-ng: the registration handler and the read handlers *)

\* string(chars): the Go string with these characters.
Str(chars) == CHOOSE x \in DOMAIN StrTable : StrTable[x] = chars

\* t.DateTime.UnixNano() of a parsed timestamp.  The timestamps of the model
\* are midnights of January 2023, at most a fraction of a second later, and
\* no two of them on one day: the instant is counted in days.
UnixNano(t) == TwoDigits(t, 9)

\* The []Tweet FetchTwtxt returned, as InsertTweets reads it.
Ingested(tweets) ==
    [i \in 1..Len(tweets) |->
        [UserID |-> tweets[i].UserID, DateTime |-> UnixNano(tweets[i].DateTime),
         Body |-> Str(tweets[i].Body), Mentions |-> <<>>, Tags |-> <<>>]]

\* text LIKE '%term%': term stands somewhere in text, a "_" of term standing
\* for any one character.  (LIKE folds ASCII case and reads "%" as any run of
\* characters; the texts of the model are lower case and have no "%".)
Like(text, term) ==
    \E i \in 1..(Len(text) - Len(term) + 1) :
        \A k \in 1..Len(term) : term[k] = "_" \/ term[k] = text[i + k - 1]

\* SearchUsers: FROM users WHERE nick LIKE ? OR url LIKE ?
SearchUsers(s, page, perPage, searchTerm, tie) ==
    LET sel == {u \in s.users : \/ Like(Chars(u.nick), searchTerm)
                                \/ Like(Chars(u.url), searchTerm)}
    IN SetIdWindow(OrderByDesc(sel, "dt_added", tie), PageWindow(page, perPage))

\* strings.TrimPrefix(parsedURL.Host, "www.") followed by parsedURL.Path
ConstructedURL(parsedURL) ==
    LET www == <<"w", "w", "w", ".">>
        host == IF HasPrefix(parsedURL.Host, www)
                THEN SubSeq(parsedURL.Host, 5, Len(parsedURL.Host)) ELSE parsedURL.Host
    IN host \o parsedURL.Path

\* The passcode GeneratePasscode made for the account with this id: ten
\* random bytes in hex, one text per registration.
PasscodeTable == <<"p1", "p2", "p3", "p4">>
Passcode(id) == PasscodeTable[id]

\* The handler answers the request.
Respond(p, op, arg, status, msg) ==
    /\ proc' = [proc EXCEPT ![p] = [pc |-> "done", op |-> op, arg |-> arg, status |-> status,
                                     msg |-> msg]]
    /\ ret' = [q |-> op, err |-> msg, n |-> 0, status |-> status, rows |-> <<>>]

\* An answer written after InsertUser returned nil: its text begins with
\* "You have been added! Your user's generated passcode is: %s".
RespondAdded(p, op, arg, status, msg, passcode) ==
    /\ proc' = [proc EXCEPT ![p] = [pc |-> "done", op |-> op, arg |-> arg, status |-> status,
                                     msg |-> msg, passcode |-> passcode]]
    /\ ret' = [q |-> op, err |-> msg, n |-> 0, status |-> status, rows |-> <<>>]

\* plainAddUserHandler up to its call of InsertUser: the form values are
\* checked and the URL is looked up with SearchUsers.  (Nickname and URL are
\* trimmed first; those of the model have no space around them.)
AddUserPreCheck(p, nick, twtxtURL) ==
    LET parsedURL == ParseURL(Chars(twtxtURL))
    IN /\ proc[p] = Idle
       /\ IF nick = "" THEN Respond(p, "plainAddUserHandler", twtxtURL, 400, "Please provide a nickname")
          ELSE IF twtxtURL = ""
          THEN Respond(p, "plainAddUserHandler", twtxtURL, 400,
                       "Please provide a twtxt.txt URL")
          ELSE IF parsedURL.err
          THEN Respond(p, "plainAddUserHandler", twtxtURL, 400, "Invalid URL")
          ELSE IF \E tie \in TieOrders :
                    SearchUsers(db, 1, EntriesPerPageMin, ConstructedURL(parsedURL), tie) # <<>>
          THEN Respond(p, "plainAddUserHandler", twtxtURL, 400, "Cannot add duplicate user")
          ELSE /\ proc' = [proc EXCEPT ![p] = [pc |-> "InsertUser", nick |-> nick,
                                                 url |-> twtxtURL]]
               /\ UNCHANGED ret
       /\ UNCHANGED <<db, tx, writer, pg, ft>>

\* GeneratePasscode and InsertUser, from Begin to Commit.
AddUserInsert(p) ==
    LET u == [URL |-> proc[p].url, Nick |-> proc[p].nick, HasHash |-> TRUE]
        r == ExecInsertUser(db, u)
    IN /\ proc[p].pc = "InsertUser"
       /\ writer = 0
       /\ IF InsertUserCheck(u) # "none"
          THEN /\ Respond(p, "plainAddUserHandler", proc[p].url, 400, InsertUserCheck(u))
               /\ UNCHANGED db
          ELSE IF r.err # "none"
          THEN /\ Respond(p, "plainAddUserHandler", proc[p].url, 500, "Internal Server Error")
               /\ UNCHANGED db
          ELSE /\ r.s.userSeq <= MaxUserId
               /\ db' = r.s
               /\ proc' = [proc EXCEPT ![p] = [pc |-> "FetchTwtxt", url |-> u.URL, id |-> r.n]]
               /\ UNCHANGED ret
       /\ UNCHANGED <<tx, writer, pg, ft>>

\* The rest of plainAddUserHandler: the feed is fetched and what it holds is
\* inserted.  net/http recovers a panic of the handler and closes the
\* connection without an answer (status 0).
AddUserAnswer(p, resp) ==
    LET out == FetchTwtxt(proc[p].url, proc[p].id, FALSE, resp)
        r == InsertTweetsLoop(db, Ingested(out.tweets), 1, 0)
        passcode == Passcode(proc[p].id)
    IN /\ proc[p].pc = "FetchTwtxt"
       /\ writer = 0
       /\ IF out.kind = "panic"
          THEN /\ Respond(p, "plainAddUserHandler", proc[p].url, 0, "panic")
               /\ UNCHANGED db
          ELSE IF out.err # "none"
          THEN /\ RespondAdded(p, "plainAddUserHandler", proc[p].url, 500,
                               "unable to fetch your twtxt file", passcode)
               /\ UNCHANGED db
          ELSE IF Len(out.tweets) = 0
          THEN /\ RespondAdded(p, "plainAddUserHandler", proc[p].url, 200,
                               "You have been added!", passcode)
               /\ UNCHANGED db
          ELSE /\ r.err = "none"
               /\ r.s.tweetSeq <= MaxTweetId
               /\ db' = r.s
               /\ RespondAdded(p, "plainAddUserHandler", proc[p].url, 200,
                               "You have been added!", passcode)
       /\ UNCHANGED <<tx, writer, pg>>

\* The same step with the call of FetchTwtxt it made on record.
AddUserFetch(p, resp) ==
    /\ AddUserAnswer(p, resp)
    /\ ft' = [pc |-> "done", url |-> proc[p].url, clientNil |-> FALSE, resp |-> resp,
              req |-> ClientDo(proc[p].url, FALSE),
              out |-> FetchTwtxt(proc[p].url, proc[p].id, FALSE, resp)]

\* fmt.Sprintf(`"#%s"`, tag) and fmt.Sprintf(`"@<" * "%s>"`, targetURL)
TagTerm(tag) == Str(<<"\"", "#">> \o Chars(tag) \o <<"\"">>)
MentionTerm(targetURL) ==
    Str(<<"\"", "@", "<", "\"", " ", "*", " ", "\"">> \o Chars(targetURL) \o <<">", "\"">>)

\* A read handler answers with the rows of its query.  Without page and
\* per_page in the request both are 0.
Answer(op, term, rows) ==
    /\ ret' = [q |-> op, term |-> term, err |-> "none", n |-> 0, status |-> StatusVisible,
               rows |-> rows]
    /\ UNCHANGED <<db, tx, writer, proc, pg, ft>>

getTagsHandler(tag, tie) ==
    Answer("getTagsHandler", tag,
           IF tag = "" THEN GetTags(db, 0, 0, StatusVisible, tie)
           ELSE SearchTags(db, 0, 0, TagTerm(tag), StatusVisible, tie))

getMentionsHandler(targetURL, tie) ==
    Answer("getMentionsHandler", targetURL,
           IF targetURL = "" THEN GetMentions(db, 0, 0, StatusVisible, tie)
           ELSE SearchMentions(db, 0, 0, MentionTerm(targetURL), StatusVisible, tie))

getTweetsHandler(searchTerm, tie) ==
    Answer("getTweetsHandler", searchTerm,
           IF searchTerm = "" THEN GetTweets(db, 0, 0, StatusVisible, tie)
           ELSE SearchTweets(db, 0, 0, searchTerm, StatusVisible, tie))

---------------------------------------------------------------------------
(* C12: one registration, its feed, and the queries *)

E2ENick == "foo"
E2EURL == "https://ex.com/twtxt.txt"
E2EMentioned == "https://ex2.com/twtxt.txt"
E2ELine == "2023-01-01T00:00:00Z\thello #test @<bar https://ex2.com/twtxt.txt>"

E2EFeeds ==
    UNION {[1..k -> {E2ELine, "2023-01-02T00:00:00.5Z hello", "# a comment",
                     "2023-01-03T00:00:00Z"}] : k \in 0..MaxLines}

E2EResponses ==
    [err : {FALSE}, status : {200}, contentType : {"text/plain; charset=utf-8"}, body : E2EFeeds]
        \cup [err : {FALSE}, status : {304}, contentType : {"text/plain; charset=utf-8"},
              body : {<<>>}]

NextE2E ==
    \/ AddUserPreCheck(1, E2ENick, E2EURL)
    \/ AddUserInsert(1)
    \/ \E resp \in E2EResponses : AddUserFetch(1, resp)
    \/ \E tag \in {"", "test", "zzz"}, tie \in TieOrders : getTagsHandler(tag, tie)
    \/ \E targetURL \in {"", E2EMentioned}, tie \in TieOrders : getMentionsHandler(targetURL, tie)
    \/ \E searchTerm \in {"", "hello", "zzz"}, tie \in TieOrders : getTweetsHandler(searchTerm, tie)

SpecE2E == Init /\ [][NextE2E]_vars

\* The registration request has been answered and the feed it fetched was
\* the one line of the scenario.
E2EDone ==
    /\ proc[1].pc = "done"
    /\ ft.pc = "done"
    /\ ft.url = E2EURL
    /\ ~ft.resp.err /\ ft.resp.status = 200 /\ ft.resp.body = <<E2ELine>>

\* C12: end-to-end scenario.  After "foo" registered https://ex.com/twtxt.txt
\* and the feed with the one line of the scenario was ingested, the account
\* has one stored entry, with contains_tags and contains_mentions set; the
\* tag query for "test", the mention query for https://ex2.com/twtxt.txt and
\* the search for "hello" return it, and the search for "zzz" returns
\* nothing.
C12_EndToEnd ==
    E2EDone =>
        /\ proc[1].status = 200
        /\ \E u \in db.users :
              /\ u.url = E2EURL /\ u.nick = E2ENick
              /\ \E e \in db.tweets :
                    /\ {t \in db.tweets : t.user_id = u.id} = {e}
                    /\ e.contains_tags = 1 /\ e.contains_mentions = 1
                    /\ (ret.q = "getTagsHandler" /\ ret.term = "test") => e \in RowsOf(ret.rows)
                    /\ (ret.q = "getMentionsHandler" /\ ret.term = E2EMentioned) =>
                          e \in RowsOf(ret.rows)
                    /\ (ret.q = "getTweetsHandler" /\ ret.term = "hello") => e \in RowsOf(ret.rows)
                    /\ (ret.q = "getTweetsHandler" /\ ret.term = "zzz") => ret.rows = <<>>

---------------------------------------------------------------------------
(* C13: registration requests side by side *)

RegURLs == {GoodURL, OtherURL}

RegResponses ==
    {[err |-> FALSE, status |-> 304, contentType |-> "text/plain; charset=utf-8", body |-> <<>>],
     [err |-> FALSE, status |-> 200, contentType |-> "text/plain; charset=utf-8",
      body |-> <<"2023-01-02T00:00:00.5Z hello">>],
     [err |-> TRUE, status |-> 0, contentType |-> "", body |-> <<>>]}

\* Each process is one request to plainAddUserHandler; the steps of the two
\* handler goroutines interleave.
NextReg ==
    \E p \in Procs :
        \/ \E twtxtURL \in RegURLs : AddUserPreCheck(p, "foo", twtxtURL)
        \/ AddUserInsert(p)
        \/ \E resp \in RegResponses : AddUserFetch(p, resp)

SpecReg == Init /\ [][NextReg]_vars

\* C13: duplicate registration is a conflict.  When two registration
\* requests for one URL have been answered, there is exactly one account
\* with that URL, and one of the two requests was answered 400 "Cannot add
\* duplicate user" by the pre-check while the other was not.
C13_DuplicateIsConflict ==
    (/\ \A p \in Procs : proc[p].pc = "done"
     /\ proc[1].arg = proc[2].arg) =>
        /\ Cardinality({u \in db.users : u.url = proc[1].arg}) = 1
        /\ \E p, q \in Procs :
              /\ p # q
              /\ proc[q].status = 400 /\ proc[q].msg = "Cannot add duplicate user"
              /\ proc[p].msg # "Cannot add duplicate user"

---------------------------------------------------------------------------
(* C14: bulk registration *)

\* Candidates of a bulk registration: two good ones, and ones with a URL that
\* does not parse, has no scheme or is not a feed path, with no nickname, and
\* with a nickname without a letter, digit or underscore.
BulkCandidates ==
    {[URL |-> GoodURL, Nick |-> "foo", HasHash |-> FALSE],
     [URL |-> OtherURL, Nick |-> "bar", HasHash |-> FALSE],
     [URL |-> ":x", Nick |-> "foo", HasHash |-> FALSE],
     [URL |-> "foo", Nick |-> "foo", HasHash |-> FALSE],
     [URL |-> "gopher://x", Nick |-> "foo", HasHash |-> FALSE],
     [URL |-> OtherURL, Nick |-> "", HasHash |-> FALSE],
     [URL |-> OtherURL, Nick |-> "!!", HasHash |-> FALSE]}

MaxBatch == 2

BulkBatches == UNION {[1..k -> BulkCandidates] : k \in 0..MaxBatch}

NextBulk ==
    \/ \E users \in BulkBatches : InsertUsers(1, users, 0)
    \/ Commit(1, TRUE)

SpecBulk == Init /\ [][NextBulk]_vars

\* A nickname of the identifier charset: one or more of [a-zA-Z0-9_].
ValidNick(nick) == Len(nick) > 0 /\ \A i \in 1..Len(nick) : IsWord(nick[i])

\* A candidate that is good by itself: its URL parses, has a scheme and is a
\* feed path, and its nickname is valid.
GoodCandidate(u) ==
    /\ ~ParseURL(Chars(u.URL)).err
    /\ ParseURL(Chars(u.URL)).Scheme # <<>>
    /\ RegexURLIsTwtxtFile(Chars(u.URL))
    /\ ValidNick(Chars(u.Nick))

\* The URLs of the acceptable candidates of a batch, in order: the good
\* candidates whose URL is not registered in s and is not the URL of an
\* earlier good candidate of the batch.
RECURSIVE AcceptableURLs(_, _, _)
AcceptableURLs(s, users, i) ==
    IF i > Len(users) THEN <<>>
    ELSE (IF /\ GoodCandidate(users[i])
             /\ \A x \in s.users : x.url # users[i].URL
             /\ \A j \in 1..(i - 1) : ~(GoodCandidate(users[j]) /\ users[j].URL = users[i].URL)
          THEN <<users[i].URL>> ELSE <<>>) \o AcceptableURLs(s, users, i + 1)

\* C14: bulk registration partially succeeds.  InsertUsers of any batch,
\* with no statement failed from outside, runs to its commit having added
\* exactly the acceptable candidates, and commits returning them.
C14_BulkPartialSuccess ==
    [][\A users \in BulkBatches :
          /\ InsertUsers(1, users, 0) =>
                /\ proc'[1].pc = "commit"
                /\ {x.url : x \in tx'.users} =
                      {x.url : x \in db.users} \cup RowsOf(AcceptableURLs(db, users, 1))
          /\ (/\ proc[1].pc = "commit"
              /\ proc[1].op = "InsertUsers"
              /\ proc[1].arg = users
              /\ Commit(1, TRUE)) =>
                /\ ret'.err = "none"
                /\ [i \in 1..Len(ret'.rows) |-> ret'.rows[i].URL] = AcceptableURLs(db, users, 1)
                /\ {x.url : x \in db'.users} =
                      {x.url : x \in db.users} \cup RowsOf(AcceptableURLs(db, users, 1))]_vars

---------------------------------------------------------------------------
(* C15: the write operations under failures and cancellation *)

AtomicCalls ==
    [op : {"InsertUser"}, arg : GoodUsers]
        \cup [op : {"InsertUsers"},
              arg : {<<>>} \cup {<<u>> : u \in GoodUsers} \cup {<<u, v>> : u, v \in GoodUsers}]
        \cup [op : {"InsertTweets"}, arg : TweetBatches]
        \cup [op : {"DeleteUser"}, arg : {[ID |-> 1]}]
        \cup [op : {"DeleteUsers"}, arg : {<<GoodURL>>, <<GoodURL, OtherURL>>}]
        \cup [op : {"ToggleTweetHiddenStatus"},
              arg : {[userID |-> 1, timestamp |-> 1, status |-> st] :
                        st \in {StatusVisible, StatusHidden}}]

\* One caller; a statement of a call may fail (failAt), its context may be
\* canceled before the commit, and the commit may fail.
NextAtomic ==
    \/ \E c \in AtomicCalls, failAt \in 0..2 : Call(1, c.op, c.arg, failAt)
    \/ CancelContext(1)
    \/ \E ok \in BOOLEAN : Commit(1, ok)

SpecAtomic == Init /\ [][NextAtomic]_vars

\* C15: all-or-nothing writes.  A call in which a statement fails returns an
\* error and leaves the database (accounts, entries, index) as it was; so
\* does a call whose commit fails, and a call whose context was canceled
\* before its commit.
C15_AllOrNothing ==
    [][/\ proc[1] = Idle =>
            \A c \in AtomicCalls, failAt \in 1..2 :
                (Stmts(db, c.op, c.arg, failAt).err # "none" /\ Call(1, c.op, c.arg, failAt)) =>
                    /\ proc'[1] = Idle
                    /\ ret'.err # "none"
                    /\ db' = db
       /\ Commit(1, FALSE) => (ret'.err # "none" /\ db' = db)
       /\ (proc[1].pc = "commit" /\ proc[1].canceled /\ proc'[1] = Idle) =>
                (ret'.err # "none" /\ db' = db)]_vars

\* C15, as the code has it: every call is all-or-nothing.  A call in which a
\* statement fails (a canceled context fails the statement it reaches), or
\* whose commit fails, returns an error and leaves the database as it was;
\* every return with an error leaves the database as it was; and a commit
\* that succeeds returns nil and leaves the database with all the writes of
\* the call, also when the context was canceled after the last statement.
C15_AllOrNothingAmended ==
    [][/\ proc[1] = Idle =>
            \A c \in AtomicCalls, failAt \in 1..2 :
                (Stmts(db, c.op, c.arg, failAt).err # "none" /\ Call(1, c.op, c.arg, failAt)) =>
                    /\ proc'[1] = Idle
                    /\ ret'.err # "none"
                    /\ db' = db
       /\ Commit(1, FALSE) => (ret'.err # "none" /\ db' = db)
       /\ (proc'[1] = Idle /\ ret' # ret /\ ret'.err # "none") => db' = db
       /\ Commit(1, TRUE) =>
                /\ ret'.err = "none"
                /\ db' = Stmts(db, proc[1].op, proc[1].arg, 0).s]_vars

\* After a call that failed at a statement, an InsertTweets of two entries
\* stands before its commit with its writes, and its context is canceled.
C15_Witness ==
    /\ ret.err = "exec"
    /\ proc[1].pc = "commit"
    /\ proc[1].op = "InsertTweets"
    /\ Len(proc[1].arg) = 2
    /\ proc[1].canceled
    /\ tx.tweets # db.tweets

---------------------------------------------------------------------------
(* cmd/getwtxt-ng: the periodic sync beside registration and deletion *)

\* SELECT id, url, nick, dt_added, last_sync FROM users: a scan of the
\* table, in rowid order.
GetAllUsers(s) ==
    LET d == OrderByDesc(s.users, "id", "asc")
    IN [i \in 1..Len(d) |-> [ID |-> d[Len(d) + 1 - i].id, URL |-> d[Len(d) + 1 - i].url]]

\* UPDATE users SET last_sync = ? WHERE id = ?, for every account synced;
\* the time of the sync is read as 1, later than the 0 of a new account.
UpdateUsersSyncTime(s, usersSynced) ==
    [s EXCEPT !.users = {IF x.id \in usersSynced THEN [x EXCEPT !.last_sync = 1] ELSE x :
                            x \in s.users}]

\* pullAllTweets reads the account list; the goroutine keeps it in users.
pullAllTweetsBegin ==
    /\ ft = NoFetch
    /\ ft' = [pc |-> "pullAllTweets", users |-> GetAllUsers(db), i |-> 1, usersSynced |-> {}]
    /\ UNCHANGED <<db, tx, writer, proc, ret, pg>>

\* One turn of the loop, from what FetchTwtxt returned for the account:
\* InsertTweets of the entries, as one transaction.  A fetch error goes on to
\* the next account; an error of InsertTweets (an empty list, a locked
\* database) ends the sync; a panic of FetchTwtxt in this goroutine ends the
\* program.
pullAllTweetsTurn(out) ==
    LET e == ft.users[ft.i]
        tweets == Ingested(out.tweets)
        r == InsertTweetsLoop(db, tweets, 1, 0)
    IN IF out.kind = "panic"
       THEN /\ ft' = [pc |-> "panic"]
            /\ UNCHANGED db
       ELSE IF out.err # "none"
       THEN /\ ft' = [ft EXCEPT !.i = ft.i + 1]
            /\ UNCHANGED db
       ELSE IF PreCheck("InsertTweets", tweets) # "none" \/ writer # 0
       THEN /\ ft' = NoFetch
            /\ UNCHANGED db
       ELSE /\ r.err = "none"
            /\ r.s.tweetSeq <= MaxTweetId
            /\ db' = r.s
            /\ ft' = [ft EXCEPT !.i = ft.i + 1, !.usersSynced = ft.usersSynced \cup {e.ID}]

\* One turn of the loop, the account's feed answering resp: FetchTwtxt of
\* the account, then the rest of the turn.
pullAllTweetsFetch(resp) ==
    /\ ft.pc = "pullAllTweets"
    /\ ft.i <= Len(ft.users)
    /\ pullAllTweetsTurn(FetchTwtxt(ft.users[ft.i].URL, ft.users[ft.i].ID, FALSE, resp))
    /\ UNCHANGED <<tx, writer, proc, ret, pg>>

\* After the loop: UpdateUsersSyncTime of the accounts synced, in one
\* transaction; a locked database fails it.  The sync is over either way.
pullAllTweetsEnd ==
    /\ ft.pc = "pullAllTweets"
    /\ ft.i > Len(ft.users)
    /\ db' = IF writer = 0 THEN UpdateUsersSyncTime(db, ft.usersSynced) ELSE db
    /\ ft' = NoFetch
    /\ UNCHANGED <<tx, writer, proc, ret, pg>>

\* What the feed of an account answers during a sync.
SyncResponses ==
    {[err |-> TRUE, status |-> 0, contentType |-> "", body |-> <<>>]}
        \cup [err : {FALSE}, status : {304}, contentType : {"text/plain; charset=utf-8"},
              body : {<<>>}]
        \cup [err : {FALSE}, status : {200}, contentType : {"text/plain; charset=utf-8"},
              body : {<<"2023-01-01T00:00:00Z\thello there">>,
                      <<"2023-01-01T00:00:00Z\thello there", "2023-01-02T00:00:00.5Z hello">>,
                      <<"hello">>}]

\* The program runs: no goroutine has panicked.
Running == ft.pc # "panic"

\* Registration and deletion by one caller, the sync goroutine beside it.
NextSync ==
    \/ Running /\ \E u \in GoodUsers : InsertUser(1, u, 0)
    \/ Running /\ \E i \in 1..MaxUserId : DeleteUser(1, [ID |-> i], 0)
    \/ Running /\ \E urls \in URLLists : DeleteUsers(1, urls, 0)
    \/ Running /\ Commit(1, TRUE)
    \/ pullAllTweetsBegin
    \/ \E resp \in SyncResponses : pullAllTweetsFetch(resp)
    \/ pullAllTweetsEnd

SpecSync == Init /\ [][NextSync]_vars

\* C16: no orphan entries.  In every reachable state every stored entry's
\* account id is the id of a stored account.
C16_NoOrphans ==
    \A t \in db.tweets : \E u \in db.users : u.id = t.user_id

---------------------------------------------------------------------------
(* cmd/getwtxt-ng: the delete handlers *)

\* common.HashPass: nil for the empty string, else the bcrypt hash.
HashPass(s) == IF s = "" THEN <<>> ELSE <<"bcrypt", s>>

\* A ValidatePass that lets every password through.
ValidatePassAny(pass, hash) == TRUE

\* common.ValidatePass: bcrypt.CompareHashAndPassword(hash, pass) == nil.
\* What is not a bcrypt hash matches no password.
ValidatePass(pass, hash) == hash = <<"bcrypt", pass>>

\* passcode_hash of a users row.
PasscodeHash(x) == HashPass(Passcode(x.id))

\* conf.ServerConfig.AdminPassword: the handlers hand it to ValidatePass as
\* the hash, so the configuration file holds the bcrypt hash of the
\* administrator's password.
AdminPassword == <<"bcrypt", "adminpw">>

\* GetFullUserByURL: SELECT * FROM users WHERE url = ? of the trimmed URL.
GetFullUserByURL(s, userURL) ==
    LET trimmed == TrimSpace(Chars(userURL))
        found == {x \in s.users : Chars(x.url) = trimmed}
    IN IF trimmed = <<>> THEN [err |-> "ErrNoUsersProvided", user |-> NilUser]
       ELSE IF found = {} THEN [err |-> "unable to query for user", user |-> NilUser]
       ELSE [err |-> "none", user |-> CHOOSE x \in found : TRUE]

\* plainDeleteUsersHandler and jsonDeleteUsersHandler up to their call of
\* DeleteUser or DeleteUsers.  decoded is whether the JSON body decoded; the
\* plain handler also turns down an empty first URL.
deleteUsersAuth(p, format, pass, urls, decoded) ==
    LET isAdmin == ValidatePass(pass, AdminPassword)
        req == [format |-> format, pass |-> pass, urls |-> urls, isAdmin |-> isAdmin]
        got == GetFullUserByURL(db, urls[1])
    IN /\ proc[p].pc \in {"idle", "done"}
       /\ IF pass = "" THEN Respond(p, "deleteUsersHandler", req, 403, "403 Forbidden")
          ELSE IF format = "json" /\ ~decoded
          THEN Respond(p, "deleteUsersHandler", req, 400, "400 Bad Request: Invalid request body")
          ELSE IF Len(urls) < 1 \/ (format = "plain" /\ urls[1] = "")
          THEN Respond(p, "deleteUsersHandler", req, 400, "400 Bad Request: No user(s) to delete")
          ELSE IF isAdmin
          THEN /\ proc' = [proc EXCEPT ![p] = [pc |-> "DeleteUsers", req |-> req, id |-> 0]]
               /\ UNCHANGED ret
          ELSE IF Len(urls) > 1
          THEN Respond(p, "deleteUsersHandler", req, 403,
                       "403 Forbidden: Non-admin users may only delete themselves")
          ELSE IF got.err # "none"
          THEN Respond(p, "deleteUsersHandler", req, 500, "500 Internal Server Error")
          ELSE IF ~ValidatePass(pass, PasscodeHash(got.user))
          THEN Respond(p, "deleteUsersHandler", req, 403, "403 Forbidden")
          ELSE /\ proc' = [proc EXCEPT ![p] = [pc |-> "DeleteUser", req |-> req,
                                                 id |-> got.user.id]]
               /\ UNCHANGED ret
       /\ UNCHANGED <<db, tx, writer, pg, ft>>

\* The rest of the handler: DeleteUser of the account looked up, or
\* DeleteUsers of the URLs, from Begin to Commit.  A locked database fails
\* the first statement.
deleteUsersExec(p) ==
    LET r == IF proc[p].pc = "DeleteUser"
             THEN Stmts(db, "DeleteUser", [ID |-> proc[p].id], 0)
             ELSE Stmts(db, "DeleteUsers", proc[p].req.urls, 0)
    IN /\ proc[p].pc \in {"DeleteUser", "DeleteUsers"}
       /\ IF writer # 0
          THEN /\ Respond(p, "deleteUsersHandler", proc[p].req, 500, "500 Internal Server Error")
               /\ UNCHANGED db
          ELSE /\ db' = r.s
               /\ Respond(p, "deleteUsersHandler", proc[p].req, 200, "Deleted")
       /\ UNCHANGED <<tx, writer, pg, ft>>

---------------------------------------------------------------------------
(* Who may delete an account *)

\* X-Auth headers: none, the administrator's password, the passcodes of the
\* accounts, something else.
XAuths == {"", "adminpw", "zzz"} \cup {Passcode(i) : i \in 1..MaxUserId}

DeleteURLLists == URLLists \cup {<<"">>}

\* Entries of accounts that are stored: what a sync or a registration passes
\* to InsertTweets.
KnownBatches(s) ==
    {tweets \in {<<T1>>, <<T2, T3>>} :
        \A i \in 1..Len(tweets) : \E x \in s.users : x.id = tweets[i].UserID}

\* Caller 1 registers accounts and stores their entries; caller 2 serves
\* delete requests.
NextAuth ==
    \/ \E u \in GoodUsers : InsertUser(1, u, 0)
    \/ \E tweets \in KnownBatches(db) : InsertTweets(1, tweets, 0)
    \/ Commit(1, TRUE)
    \/ \E pass \in XAuths, urls \in DeleteURLLists :
            deleteUsersAuth(2, "plain", pass, urls, TRUE)
    \/ \E pass \in XAuths, urls \in DeleteURLLists :
            deleteUsersAuth(2, "json", pass, urls, TRUE)
    \/ \E pass \in XAuths : deleteUsersAuth(2, "json", pass, <<>>, FALSE)
    \/ deleteUsersExec(2)

SpecAuth == Init /\ [][NextAuth]_vars

\* The request caller 2 is serving may delete the account x: its X-Auth is
\* the administrator's password, or it names one URL and its X-Auth is the
\* passcode of x.
MayDelete(x) ==
    /\ proc[2].pc \in {"DeleteUser", "DeleteUsers"}
    /\ \/ proc[2].req.pass = "adminpw"
       \/ /\ Len(proc[2].req.urls) = 1
          /\ proc[2].req.pass = Passcode(x.id)

\* C17: delete authorization.  An account is removed in a step only if the
\* request being served may delete it, and an entry is removed only with its
\* account, under the same condition; no other request (no X-Auth, a wrong
\* passcode, several URLs without the administrator's password) removes
\* anything.
C17_DeleteAuthorization ==
    [][/\ \A x \in db.users : (\A y \in db'.users : y.id # x.id) => MayDelete(x)
       /\ \A t \in db.tweets : (\A s \in db'.tweets : s.id # t.id) =>
             \E x \in db.users : x.id = t.user_id /\ MayDelete(x)
                                   /\ \A y \in db'.users : y.id # x.id
       /\ (proc[2].pc \in {"idle", "done"} /\ proc'[2].pc = "done" /\ proc'[2] # proc[2]) =>
             (db' = db /\ proc'[2].status # 200)]_vars

\* An owner has deleted their own account, which had an entry, with their
\* passcode while another account stays.
C17_Witness ==
    /\ proc[2].pc = "done"
    /\ proc[2].status = 200
    /\ ~proc[2].arg.isAdmin
    /\ proc[2].arg.pass = Passcode(1)
    /\ {x.id : x \in db.users} = {2}
    /\ db.tweetSeq > 0
    /\ db.tweets = {}

---------------------------------------------------------------------------
(* The window of a paginated operation *)

PagedOps == QueryOps \cup {"SearchUsers"}

\* Page numbers and page sizes asked for: below, at and above the limits.
NormPages == {0, 1, 2}
NormPerPages == {EntriesPerPageMin - 1, EntriesPerPageMin, EntriesPerPageMax + 1}
NormTerms == {"hello", "example"}

\* The datasets of up to MaxRows - 1 rows.
NormDBs == {s \in TweetDBs \cup UserDBs : Cardinality(s.tweets) < MaxRows /\ Cardinality(s.users) < MaxRows}

RunPaged(s, q) ==
    IF q.op = "SearchUsers" THEN SearchUsers(s, q.page, q.perPage, Chars(q.term), q.tie)
    ELSE RunQuery(s, q)

InitNorm ==
    /\ db \in NormDBs
    /\ tx = NoTx
    /\ writer = 0
    /\ proc = [p \in Procs |-> Idle]
    /\ ret = NoRet
    /\ pg = NoPaging
    /\ ft = NoFetch

\* One call of a paginated operation on the dataset, kept with its arguments.
Paged(q) ==
    /\ pg = NoPaging
    /\ pg' = [op |-> q.op, page |-> q.page, perPage |-> q.perPage, term |-> q.term,
              status |-> q.status, tie |-> q.tie, rows |-> RunPaged(db, q)]
    /\ UNCHANGED <<db, tx, writer, proc, ret, ft>>

NextNorm ==
    \E q \in [op : PagedOps, page : NormPages, perPage : NormPerPages, term : NormTerms,
              status : {StatusVisible, StatusHidden}, tie : TieOrders] :
        /\ (q.op \in {"GetUsers", "SearchUsers"} => q.status = StatusVisible)
        /\ (q.op \in {"GetUsers", "GetTweets", "GetTags", "GetMentions"} => q.term = "hello")
        /\ Paged(q)

SpecNorm == InitNorm /\ [][NextNorm]_vars

\* The rows an operation selects from, by its FROM and WHERE: entries of the
\* given visibility (with the flag, matching the term), or accounts.
Selected(s, q) ==
    LET term == Chars(q.term)
        joined == {t \in s.tweets : \E u \in s.users : u.id = t.user_id}
        flag == CASE q.op \in {"GetTags", "SearchTags"} -> "contains_tags"
                  [] q.op \in {"GetMentions", "SearchMentions"} -> "contains_mentions"
                  [] OTHER -> "none"
    IN CASE q.op = "GetUsers" -> s.users
         [] q.op = "SearchUsers" ->
               {u \in s.users : Like(Chars(u.nick), term) \/ Like(Chars(u.url), term)}
         [] q.op = "GetTweets" -> {t \in s.tweets : t.hidden = q.status}
         [] q.op \in {"GetTags", "GetMentions"} ->
               {t \in joined : t.hidden = q.status /\ t[flag] = 1}
         [] OTHER ->
               {t \in joined : /\ t.hidden = q.status
                               /\ flag = "none" \/ t[flag] = 1
                               /\ HasToken(Chars(t.body), term)}

\* C18: page and page-size normalization.  What a paginated operation
\* returned is rows floor+1..floor+P of the rows it selects from, in
\* descending order of the time, where P is perPage raised to
\* EntriesPerPageMin or lowered to EntriesPerPageMax, the page is 1 for a
\* page value <= 0, and floor = (page - 1) * P.
C18_PageNormalization ==
    pg.op # "none" =>
        LET P == IF pg.perPage < EntriesPerPageMin THEN EntriesPerPageMin
                 ELSE IF pg.perPage > EntriesPerPageMax THEN EntriesPerPageMax
                 ELSE pg.perPage
            page == IF pg.page <= 0 THEN 1 ELSE pg.page
            floor == (page - 1) * P
            key == IF pg.op \in {"GetUsers", "SearchUsers"} THEN "dt_added" ELSE "dt"
            ordered == OrderByDesc(Selected(db, pg), key, pg.tie)
        IN /\ Len(pg.rows) = Max({0, Min({P, Len(ordered) - floor})})
           /\ \A i \in 1..Len(pg.rows) : pg.rows[i] = ordered[floor + i]

---------------------------------------------------------------------------
(* Paging while entries are inserted *)

\* Entries inserted while a client pages: at most MaxNew of them.
MaxNew == 2

\* The datasets whose entries are all visible and of the stored account.
StableDBs ==
    {s \in TweetDBs : \A t \in s.tweets : t.hidden = StatusVisible /\ t.user_id = 1}

\* The client is about to ask GetTweets for page 1; old is the entries
\* stored at that time.
InitStable ==
    /\ tx = NoTx
    /\ writer = 0
    /\ proc = [p \in Procs |-> Idle]
    /\ ret = NoRet
    /\ ft = NoFetch
    /\ db \in StableDBs
    /\ pg \in [op : {"GetTweets"}, perPage : EntriesPerPageMin..EntriesPerPageMax,
               status : {StatusVisible}, tie : TieOrders, page : {0}, rows : {<<>>},
               old : {{t.id : t \in db.tweets}}]

\* The client asks for the next page, up to the last page there is now.
StablePage ==
    /\ pg.page < NumPages(Cardinality(ResultSet(db, pg.op, pg.status)), pg.perPage)
    /\ pg' = [pg EXCEPT !.page = @ + 1,
                        !.rows = @ \o GetTweets(db, pg.page + 1, pg.perPage, pg.status, pg.tie)]
    /\ UNCHANGED <<db, tx, writer, proc, ret, ft>>

\* Between two requests of the client, InsertTweets stores a new entry of
\* the account, from Begin to Commit.
InsertBetween(dt) ==
    LET n == db.tweetSeq - Cardinality(pg.old)
        new == [UserID |-> 1, DateTime |-> dt, Body |-> PageBodies[MaxRows + n + 1],
                Mentions |-> <<>>, Tags |-> <<>>]
        r == InsertTweetsLoop(db, <<new>>, 1, 0)
    IN /\ pg.page >= 1
       /\ n < MaxNew
       /\ r.err = "none"
       /\ db' = r.s
       /\ UNCHANGED <<tx, writer, proc, ret, pg, ft>>

NextStable ==
    \/ StablePage
    \/ \E dt \in 1..3 : InsertBetween(dt)

SpecStable == InitStable /\ [][NextStable]_vars

\* C19: stable pages under concurrent insert.  Of the entries stored when the
\* client asked for page 1, none is on the pages it has read twice, and when
\* it has read the last page none is missing.
C19_StablePages ==
    /\ \A i, j \in 1..Len(pg.rows) :
          (i # j /\ pg.rows[i].id \in pg.old) => pg.rows[i].id # pg.rows[j].id
    /\ (pg.page >= 1 /\ pg.page = NumPages(Cardinality(ResultSet(db, pg.op, pg.status)), pg.perPage))
          => \A id \in pg.old : \E i \in 1..Len(pg.rows) : pg.rows[i].id = id

---------------------------------------------------------------------------
(* The nicknames InsertUser takes *)

NextNick ==
    \/ \E u \in NickInputs : InsertUser(1, u, 0)
    \/ Commit(1, TRUE)

SpecNick == Init /\ [][NextNick]_vars

\* C20: nickname validation.  InsertUser of a user whose URL, nickname or
\* passcode hash is missing, or whose nickname has a character outside
\* [a-zA-Z0-9_], returns ErrIncompleteUserInfo and stores nothing; every
\* stored nickname is made of those characters only.
C20_NicknameValidation ==
    [][/\ \A u \in NickInputs :
            (/\ InsertUser(1, u, 0)
             /\ (u.URL = "" \/ u.Nick = "" \/ ~u.HasHash \/ ~ValidNick(Chars(u.Nick)))) =>
                /\ ret'.err = "ErrIncompleteUserInfo"
                /\ proc'[1] = Idle
                /\ db' = db
                /\ tx' = tx
       /\ \A x \in db'.users : ValidNick(Chars(x.nick))]_vars

---------------------------------------------------------------------------
(* cmd/getwtxt-ng: one pass of the sync over the registered accounts *)

\* What the feed of an account answers during a pass: a transport error, a
\* status other than 200, a wrong content type, an unchanged feed, a feed
\* without entries, feeds with entries, and a line with one field.
PassResponses ==
    SyncResponses
        \cup [err : {FALSE}, status : {404}, contentType : {"text/plain; charset=utf-8"},
              body : {<<>>}]
        \cup [err : {FALSE}, status : {200}, contentType : {"text/html"}, body : {<<>>}]
        \cup [err : {FALSE}, status : {200}, contentType : {"text/plain; charset=utf-8"},
              body : {<<>>, <<"# a comment">>}]

\* Accounts register while the ticker runs its passes.
NextPass ==
    \/ Running /\ \E u \in GoodUsers : InsertUser(1, u, 0)
    \/ Running /\ Commit(1, TRUE)
    \/ pullAllTweetsBegin
    \/ \E resp \in PassResponses : pullAllTweetsFetch(resp)
    \/ pullAllTweetsEnd

SpecPass == Init /\ [][NextPass]_vars

\* The accounts of the pass whose FetchTwtxt returned an error: the loop went
\* past them (continue) without appending them to usersSynced.
PassFailed(f) == {f.users[k].ID : k \in 1..(f.i - 1)} \ f.usersSynced

\* The step that ends a pass: pullAllTweets returns, or the program dies.
PassEnds == ft.pc = "pullAllTweets" /\ ft'.pc # "pullAllTweets"

\* last_sync of the account id in the store s.
LastSync(s, id) == (CHOOSE x \in s.users : x.id = id).last_sync

\* C21: sync isolates fetch failures.  When a pass in which the fetch of
\* some account failed ends, every account of the pass whose fetch failed
\* has its last-sync time as before, and every other account of the pass
\* was fetched, was ingested and has its last-sync time updated.
C21_FetchFailuresIsolated ==
    [][(PassEnds /\ PassFailed(ft) # {}) =>
          \A k \in 1..Len(ft.users) :
              LET id == ft.users[k].ID
              IN IF id \in PassFailed(ft)
                 THEN LastSync(db', id) = LastSync(db, id)
                 ELSE /\ k < ft.i
                      /\ id \in ft.usersSynced
                      /\ LastSync(db', id) = 1]_vars

---------------------------------------------------------------------------
(* registry: what FetchTwtxt returns for each answer of the remote *)

\* strings.Contains(contentType, "text/plain")
IsTextPlain(contentType) ==
    Contains(Chars(contentType), <<"t", "e", "x", "t", "/", "p", "l", "a", "i", "n">>)

\* C22: not-modified result.  Of a call that got an answer from the remote:
\* a 304 returns a nil slice and no error; a 200 of text/plain in which no
\* entry was found returns an empty slice that is not nil, and no error; any
\* other status, and a 200 that is not text/plain, returns an error and no
\* entries.
C22_NotModified ==
    (ft.pc = "done" /\ ft.req /\ ~ft.resp.err) =>
        /\ ft.resp.status = 304 =>
              /\ ft.out.kind = "return" /\ ft.out.err = "none"
              /\ ft.out.nil /\ ft.out.tweets = <<>>
        /\ (/\ ft.resp.status = 200 /\ IsTextPlain(ft.resp.contentType)
            /\ ft.out.kind = "return" /\ ft.out.tweets = <<>>) =>
              ft.out.err = "none" /\ ~ft.out.nil
        /\ (\/ ft.resp.status \notin {200, 304}
            \/ ft.resp.status = 200 /\ ~IsTextPlain(ft.resp.contentType)) =>
              /\ ft.out.kind = "return" /\ ft.out.err # "none"
              /\ ft.out.nil /\ ft.out.tweets = <<>>

\* A call answered with 304 that returned nil and no error.
C22_Witness ==
    /\ ft.pc = "done" /\ ft.req /\ ~ft.resp.err /\ ft.resp.status = 304
    /\ ft.out.err = "none" /\ ft.out.nil

---------------------------------------------------------------------------
(* registry: the rows ToggleTweetHiddenStatus writes *)

\* One caller registers accounts, ingests entries and toggles visibility,
\* with every account id and timestamp a caller can pass.
NextToggle ==
    \/ \E u \in GoodUsers : InsertUser(1, u, 0)
    \/ \E tweets \in TweetBatches : InsertTweets(1, tweets, 0)
    \/ \E arg \in ToggleInputs : ToggleTweetHiddenStatus(1, arg, 0)
    \/ Commit(1, TRUE)

SpecToggle == Init /\ [][NextToggle]_vars

\* The entries of s that are not in s2 as they were: the rows a step changed.
RowsChanged(s, s2) == {t \in s.tweets : t \notin s2.tweets}

\* C23: toggle touches one entry.  A ToggleTweetHiddenStatus(accountId,
\* timestamp, state) that commits changes at most one entry, changes nothing
\* but visibility, and changes no entry but one of that account and
\* timestamp, which then has the state asked for; with an empty account id or
\* a zero timestamp the call returns an error and the store is as before.
C23_ToggleOneEntry ==
    [][/\ (proc[1].pc = "commit" /\ proc[1].op = "ToggleTweetHiddenStatus" /\ Commit(1, TRUE)) =>
            /\ ret'.err = "none"
            /\ Cardinality(RowsChanged(db, db')) <= 1
            /\ \A t \in db.tweets :
                  \E t2 \in db'.tweets :
                      /\ t2 = [t EXCEPT !.hidden = t2.hidden]
                      /\ t2.hidden # t.hidden =>
                            /\ t.user_id = proc[1].arg.userID
                            /\ t.dt = proc[1].arg.timestamp
                            /\ t2.hidden = proc[1].arg.status
       /\ \A a \in ToggleInputs :
            ((a.userID = 0 \/ a.timestamp = 0) /\ ToggleTweetHiddenStatus(1, a, 0)) =>
                /\ proc'[1] = Idle
                /\ ret'.err # "none"
                /\ db' = db]_vars

---------------------------------------------------------------------------
(* registry: calls with arguments that cannot be served *)

\* Calls with a nil argument or an empty required field.
InvalidArgs ==
    [op : {"InsertTweets"}, arg : {<<>>}]
        \cup [op : {"InsertUser"},
              arg : {NilUser,
                     [URL |-> "", Nick |-> "foo", HasHash |-> TRUE],
                     [URL |-> GoodURL, Nick |-> "", HasHash |-> TRUE],
                     [URL |-> GoodURL, Nick |-> "foo", HasHash |-> FALSE]}]
        \cup [op : {"DeleteUser"}, arg : {NilUser, [ID |-> 0]}]
        \cup [op : {"DeleteUsers"}, arg : {<<>>}]
        \cup [op : {"ToggleTweetHiddenStatus"},
              arg : {a \in ToggleInputs : a.userID = 0 \/ a.timestamp = 0}]

\* Calls that can be served: they fill and empty the store.
ValidArgs ==
    [op : {"InsertUser"}, arg : GoodUsers]
        \cup [op : {"InsertTweets"}, arg : {<<T1>>, <<T2, T3>>}]
        \cup [op : {"DeleteUser"}, arg : {[ID |-> 1]}]
        \cup [op : {"DeleteUsers"}, arg : {<<OtherURL>>}]
        \cup [op : {"ToggleTweetHiddenStatus"},
              arg : {[userID |-> 1, timestamp |-> 1, status |-> StatusHidden]}]

\* Arguments of FetchTwtxt: with and without URL, with and without client;
\* the remote, if asked, answers with a feed.
ArgURLs == {"", GoodURL}
ArgResponses == {r \in SyncResponses : r.status = 200 /\ Len(r.body) = 1}

NextArgs ==
    \/ \E c \in InvalidArgs \cup ValidArgs : Call(1, c.op, c.arg, 0)
    \/ Commit(1, TRUE)
    \/ \E twtxtURL \in ArgURLs, clientNil \in BOOLEAN, resp \in ArgResponses :
          Fetch(twtxtURL, clientNil, resp)

SpecArgs == Init /\ [][NextArgs]_vars

\* C24: invalid arguments are rejected before any I/O.  Each call with a nil
\* argument or an empty required field returns an error at once, no
\* transaction is opened and the store is as before; FetchTwtxt with an
\* empty URL or a nil HTTP client returns an error, no request was sent and
\* the store is as before.
C24_RejectedBeforeIO ==
    [][/\ \A c \in InvalidArgs :
            Call(1, c.op, c.arg, 0) =>
                /\ proc'[1] = Idle
                /\ ret'.err # "none"
                /\ db' = db /\ tx' = tx /\ writer' = writer
       /\ \A twtxtURL \in ArgURLs, clientNil \in BOOLEAN, resp \in ArgResponses :
            ((twtxtURL = "" \/ clientNil) /\ Fetch(twtxtURL, clientNil, resp)) =>
                /\ ft'.out.kind = "return"
                /\ ft'.out.err # "none"
                /\ ft'.out.tweets = <<>>
                /\ ~ft'.req
                /\ db' = db /\ tx' = tx /\ writer' = writer]_vars

\* InsertTweets with an empty list has returned its error with entries and
\* accounts in the store, and a FetchTwtxt without client has returned.
C24_Witness ==
    /\ ret.err = "invalid tweets provided"
    /\ proc[1] = Idle /\ writer = 0 /\ tx = NoTx
    /\ db.tweets # {} /\ db.users # {}
    /\ ft.pc = "done" /\ ft.clientNil /\ ft.out.err # "none"

---------------------------------------------------------------------------
(* registry: two callers deleting one account *)

\* The account both callers delete.
RaceUser == [ID |-> 1]

\* No call other than a DeleteUser is under way beside process p.
RaceQuiet(p) ==
    \A q \in Procs \ {p} : IF proc[q] = Idle THEN TRUE ELSE proc[q].op = "DeleteUser"

\* Process 1 fills the store while nothing else runs; then both processes
\* call DeleteUser for the account, each finding the write lock free or
\* taken by the other.
NextRace ==
    \/ RaceQuiet(1) /\ proc[2] = Idle /\ \E u \in GoodUsers : InsertUser(1, u, 0)
    \/ RaceQuiet(1) /\ proc[2] = Idle /\ \E tweets \in {<<T1>>, <<T1, T2>>, <<T2, T3>>} :
          InsertTweets(1, tweets, 0)
    \/ \E p \in Procs : RaceQuiet(p) /\ DeleteUser(p, RaceUser, 0)
    \/ \E p \in Procs : RaceQuiet(p) /\ Block(p, "DeleteUser", RaceUser)
    \/ \E p \in Procs : Resume(p, 0)
    \/ \E p \in Procs : Timeout(p)
    \/ \E p \in Procs : Commit(p, TRUE)

SpecRace == Init /\ [][NextRace]_vars

\* Process p is inside DeleteUser, or enters it with this step.
InDeleteUser(p) ==
    \/ proc[p].pc \in {"waiting", "commit"} /\ proc[p].op = "DeleteUser"
    \/ proc[p] = Idle /\ DeleteUser(p, RaceUser, 0)

\* The entries of the account id in the store s.
EntriesOf(s, id) == {t \in s.tweets : t.user_id = id}

\* C25: concurrent deletion races to zero.  Every DeleteUser call of the two
\* callers returns without error; the call that commits while the account's
\* N entries are stored reports N, a call that commits after them reports 0;
\* and after a commit the account and its entries are gone.
C25_RaceToZero ==
    [][\A p \in Procs :
          (InDeleteUser(p) /\ proc'[p] = Idle) =>
              /\ ret'.err = "none"
              /\ ret'.n = Cardinality(EntriesOf(db, RaceUser.ID))
              /\ EntriesOf(db', RaceUser.ID) = {}
              /\ \A u \in db'.users : u.id # RaceUser.ID]_vars

---------------------------------------------------------------------------
(* registry: what writes the hidden column *)

\* The step is the commit of a ToggleTweetHiddenStatus.
ToggleCommits ==
    /\ proc[1].pc = "commit"
    /\ proc[1].op = "ToggleTweetHiddenStatus"
    /\ Commit(1, TRUE)

\* C26: visibility changes only by toggle.  An entry stored before and after
\* a step has another visibility after it only if the step is the commit of
\* a ToggleTweetHiddenStatus; an entry that is new after a step is visible;
\* and the commit of an InsertTweets leaves every hidden entry as it was.
C26_VisibilityOnlyByToggle ==
    [][/\ \A t \in db.tweets, t2 \in db'.tweets :
            (SameKey(t, t2) /\ t2.hidden # t.hidden) => ToggleCommits
       /\ \A t2 \in db'.tweets :
            (\A t \in db.tweets : ~SameKey(t, t2)) => t2.hidden = StatusVisible
       /\ (proc[1].pc = "commit" /\ proc[1].op = "InsertTweets" /\ Commit(1, TRUE)) =>
            \A t \in db.tweets : t.hidden = StatusHidden => t \in db'.tweets]_vars

\* An InsertTweets that carries an entry stored as hidden stands before its
\* commit, the entry still hidden in its transaction.
C26_Witness ==
    /\ proc[1].pc = "commit"
    /\ proc[1].op = "InsertTweets"
    /\ \E t \in db.tweets :
          /\ t.hidden = StatusHidden
          /\ t \in tx.tweets
          /\ \E i \in 1..Len(proc[1].arg) :
                /\ proc[1].arg[i].UserID = t.user_id
                /\ proc[1].arg[i].DateTime = t.dt
                /\ proc[1].arg[i].Body = t.body

---------------------------------------------------------------------------
(* cmd/getwtxt-ng: registration whose first fetch fails, and the sync after it *)

\* Each process is one request to plainAddUserHandler.  The ticker begins a
\* pass while no request stands between its InsertUser and its answer, so
\* that a pass holding an account began after the request was answered.
NextRetry ==
    \/ \E p \in Procs, twtxtURL \in RegURLs : Running /\ AddUserPreCheck(p, "foo", twtxtURL)
    \/ \E p \in Procs : Running /\ AddUserInsert(p)
    \/ \E p \in Procs, resp \in RegResponses :
          Running /\ AddUserAnswer(p, resp) /\ UNCHANGED ft
    \/ (\A p \in Procs : proc[p].pc # "FetchTwtxt") /\ pullAllTweetsBegin
    \/ \E resp \in RegResponses : pullAllTweetsFetch(resp)
    \/ pullAllTweetsEnd

SpecRetry == Init /\ [][NextRetry]_vars

\* The request of process p was answered 5xx because the feed of the account
\* it had stored could not be fetched.
FetchFailed(p) ==
    /\ proc[p].pc = "done"
    /\ proc[p].status \in 500..599
    /\ proc[p].msg = "unable to fetch your twtxt file"

\* C27: registration survives a failed first fetch.  A request whose
\* InsertUser stored the account and whose FetchTwtxt then fails is answered
\* 5xx with the passcode generated for the account, the account is stored
\* and has no entries; and a pass of the sync that begins after that answer
\* fetches the account's feed before it ends (when a pass ends the loop
\* stands at ft.i, the accounts up to it fetched).
C27_SurvivesFailedFetch ==
    [][/\ \A p \in Procs, resp \in RegResponses :
            (/\ AddUserAnswer(p, resp)
             /\ FetchTwtxt(proc[p].url, proc[p].id, FALSE, resp).kind = "return"
             /\ FetchTwtxt(proc[p].url, proc[p].id, FALSE, resp).err # "none") =>
                /\ proc'[p].status \in 500..599
                /\ proc'[p].passcode = Passcode(proc[p].id)
                /\ \E u \in db'.users : u.id = proc[p].id /\ u.url = proc[p].url
                /\ EntriesOf(db', proc[p].id) = {}
       /\ PassEnds =>
            \A p \in Procs :
                FetchFailed(p) =>
                    \A k \in 1..Len(ft.users) : ft.users[k].URL = proc[p].arg => k <= ft.i]_vars

---------------------------------------------------------------------------
(* cmd/getwtxt-ng: a pass over feeds that have nothing new *)

\* FetchTwtxt of the account e returns without error and without entries:
\* the feed is unchanged (304) or holds no entry.
NothingNew(e, resp) ==
    LET out == FetchTwtxt(e.URL, e.ID, FALSE, resp)
    IN out.kind = "return" /\ out.err = "none" /\ Len(out.tweets) = 0

\* C28: a sync pass is not stopped by an unchanged feed.  A turn of the
\* loop of pullAllTweets whose fetch succeeds with a not-modified result or
\* with no entries counts the account as synced and goes on to the next
\* account; and when a pass ends, the last-sync time of every account it
\* counted as synced is stored.
C28_UnchangedFeedGoesOn ==
    [][/\ \A resp \in PassResponses :
            (pullAllTweetsFetch(resp) /\ NothingNew(ft.users[ft.i], resp)) =>
                /\ ft'.pc = "pullAllTweets"
                /\ ft'.users = ft.users
                /\ ft'.i = ft.i + 1
                /\ ft.users[ft.i].ID \in ft'.usersSynced
       /\ PassEnds =>
            \A id \in ft.usersSynced :
                (\E x \in db'.users : x.id = id) => LastSync(db', id) = 1]_vars

---------------------------------------------------------------------------
(* cmd/getwtxt-ng: the ticker, pass after pass *)

\* The feed of GoodURL stays reachable and well-formed: it answers every
\* request with its one entry.
TickGoodFeed ==
    [err |-> FALSE, status |-> 200, contentType |-> "text/plain; charset=utf-8",
     body |-> <<"2023-01-01T00:00:00Z\thello there">>]

\* The feeds of the other accounts answer with an error, with 304, with an
\* empty document or with an entry.
TickOtherFeeds ==
    {[err |-> TRUE, status |-> 0, contentType |-> "", body |-> <<>>],
     [err |-> FALSE, status |-> 304, contentType |-> "text/plain; charset=utf-8", body |-> <<>>],
     [err |-> FALSE, status |-> 200, contentType |-> "text/plain; charset=utf-8", body |-> <<>>],
     [err |-> FALSE, status |-> 200, contentType |-> "text/plain; charset=utf-8",
      body |-> <<"2023-01-02T00:00:00.5Z hello">>]}

\* What the feed at twtxtURL may answer.
TickFeed(twtxtURL) == IF twtxtURL = GoodURL THEN {TickGoodFeed} ELSE TickOtherFeeds

\* What FetchTwtxt returns for each account and each answer of its feed,
\* worked out once.
TickOuts ==
    {[url |-> u, id |-> i, resp |-> r, out |-> FetchTwtxt(u, i, FALSE, r)] :
        u \in {GoodURL, OtherURL}, i \in 1..MaxUserId,
        r \in TickOtherFeeds \cup {TickGoodFeed}}

TickOut(twtxtURL, userID, resp) ==
    (CHOOSE o \in TickOuts : o.url = twtxtURL /\ o.id = userID /\ o.resp = resp).out

\* One turn of the loop of a pass, the account's feed answering: the step
\* of pullAllTweetsFetch, with the result of FetchTwtxt read from TickOuts.
TickFetch(resp) ==
    /\ ft.pc = "pullAllTweets"
    /\ ft.i <= Len(ft.users)
    /\ resp \in TickFeed(ft.users[ft.i].URL)
    /\ pullAllTweetsTurn(TickOut(ft.users[ft.i].URL, ft.users[ft.i].ID, resp))
    /\ UNCHANGED <<tx, writer, proc, ret, pg>>

NextTick ==
    \/ \E u \in GoodUsers : InsertUser(1, u, 0)
    \/ Commit(1, TRUE)
    \/ pullAllTweetsBegin
    \/ \E resp \in TickOtherFeeds \cup {TickGoodFeed} : TickFetch(resp)
    \/ pullAllTweetsEnd

\* The ticker keeps firing and the goroutine of a pass keeps running: a
\* pass begins whenever none is under way, each turn of its loop is taken
\* and it comes to its end; a registration that stands before its commit
\* commits.
SpecTick ==
    /\ Init
    /\ [][NextTick]_vars
    /\ WF_vars(pullAllTweetsBegin)
    /\ WF_vars(\E resp \in TickOtherFeeds \cup {TickGoodFeed} : TickFetch(resp))
    /\ WF_vars(pullAllTweetsEnd)
    /\ WF_vars(Commit(1, TRUE))

\* The account with the feed GoodURL is registered.
TickRegistered == \E u \in db.users : u.url = GoodURL

\* The entry of the feed GoodURL is stored for its account.
TickIngested ==
    \E u \in db.users :
        /\ u.url = GoodURL
        /\ \E t \in db.tweets : t.user_id = u.id /\ t.dt = 1

\* C29: eventual ingestion.  Once the account whose feed stays reachable and
\* well-formed is registered, the entry of its feed is eventually stored,
\* whatever the feeds of the other accounts answer and wherever they stand
\* in the list of accounts.
C29_EventualIngestion == TickRegistered ~> TickIngested

---------------------------------------------------------------------------
(* cmd/getwtxt-ng: the search for a duplicate before a registration *)

\* GoodURL again with another scheme and a leading www., a URL whose host
\* and path are the tail of GoodURL's, and a URL whose host is the nickname
\* the accounts are registered under.
WwwURL == "http://www.example.com/twtxt.txt"
TailURL == "https://ple.com/twtxt.txt"
NickURL == "https://foo"
DupURLs == {GoodURL, WwwURL, TailURL, NickURL}

\* A fetch that fails and one that returns an entry.
DupResponses == {r \in RegResponses : r.err \/ (r.status = 200 /\ Len(r.body) = 1)}

\* plainAddUserHandler, two requests side by side.
NextDup ==
    \E p \in Procs :
        \/ \E twtxtURL \in DupURLs : AddUserPreCheck(p, "foo", twtxtURL)
        \/ AddUserInsert(p)
        \/ \E resp \in DupResponses : AddUserAnswer(p, resp) /\ UNCHANGED ft

SpecDup == Init /\ [][NextDup]_vars

\* Host without a leading www. followed by the path, of a URL as text.
HostPath(rawURL) == ConstructedURL(ParseURL(Chars(rawURL)))

\* An account with the same host and the same path as twtxtURL is registered.
SameRegistered(s, twtxtURL) == \E u \in s.users : HostPath(u.url) = HostPath(twtxtURL)

\* The URL of the request that p has just looked at.
RequestURL(r) == IF r.pc = "done" THEN r.arg ELSE r.url

\* The request of p was answered "Cannot add duplicate user".
RejectedDuplicate(r) == r.pc = "done" /\ r.msg = "Cannot add duplicate user"

\* C30: the duplicate pre-check is exact.  When plainAddUserHandler has
\* searched for the URL of a request, the request is rejected as a duplicate
\* if and only if an account with the same host (without the scheme and a
\* leading www.) and the same path is registered; an account whose URL or
\* nickname only contains that host and path does not block it.
C30_DuplicateExact ==
    [][\A p \in Procs :
          (proc[p] = Idle /\ proc'[p] # Idle) =>
              (RejectedDuplicate(proc'[p]) <=> SameRegistered(db, RequestURL(proc'[p])))]_vars

\* The half of C30 that holds: a request for a URL with the host and path of
\* a registered account is always rejected as a duplicate.
C30_SameIsRejected ==
    [][\A p \in Procs :
          (proc[p] = Idle /\ proc'[p] # Idle /\ SameRegistered(db, RequestURL(proc'[p]))) =>
              RejectedDuplicate(proc'[p])]_vars

=============================================================================
